---- MODULE Spec2Model ----
(***************************************************************************)
(* A model of @sifxt/money-utils: currency-aware rounding, residual        *)
(* redistribution and the invoice line-item engine.                        *)
(*                                                                         *)
(* Decimal values.  The library hands decimal strings to the BigInt-based  *)
(* engine of @sifxt/math-utils, whose add, subtract and multiply are       *)
(* exact.  A decimal value is modelled as the exact rational it denotes,   *)
(* a record [n |-> numerator, d |-> denominator] in lowest terms with      *)
(* d > 0, so that two values are equal exactly when the engine's           *)
(* preciseEquals says so.  The engine's divide keeps 20 fractional digits  *)
(* by default; every quotient the modelled code takes has a denominator    *)
(* far below 10^15 and is rounded to at most MaxScale digits right after,  *)
(* which gives the same result as rounding the exact quotient, so divide   *)
(* is modelled as the exact quotient.                                      *)
(***************************************************************************)
EXTENDS Integers, Sequences, FiniteSets, TLC

VARIABLES pc, arg, out, items, agg, ver

vars == <<pc, arg, out, items, agg, ver>>

None == [none |-> TRUE]

(***************************************************************************)
(* Bounds of the model.                                                    *)
(***************************************************************************)
MaxScale == 3
MaxThousandths == 36
MaxHalves == 7

(***************************************************************************)
(* The decimal engine (@sifxt/math-utils), by its contract.                *)
(***************************************************************************)
Abs(x) == IF x < 0 THEN -x ELSE x

RECURSIVE Gcd(_, _)
Gcd(a, b) == IF b = 0 THEN a ELSE Gcd(b, a % b)

\* n / d in lowest terms with a positive denominator; n and d are evaluated
\* once, then reduced.
Norm(n, d) ==
    LET reduced[x \in {n}, y \in {d}] ==
            LET g == Gcd(Abs(x), Abs(y))
                s == IF y < 0 THEN -1 ELSE 1
            IN  [n |-> (s * x) \div g, d |-> (s * y) \div g]
    IN  reduced[n, d]

Dec(n, d) == Norm(n, d)

Whole(k) == [n |-> k, d |-> 1]

Zero == Whole(0)

RECURSIVE Pow10(_)
Pow10(k) == IF k <= 0 THEN 1 ELSE 10 * Pow10(k - 1)

preciseAdd(a, b) == Norm(a.n * b.d + b.n * a.d, a.d * b.d)

preciseSubtract(a, b) == Norm(a.n * b.d - b.n * a.d, a.d * b.d)

preciseMultiply(a, b) == Norm(a.n * b.n, a.d * b.d)

\* preciseDivide throws 'Division by zero' when b is zero: callers test
\* preciseIsZero(b) first and model the throw.
preciseDivide(a, b) == Norm(a.n * b.d, a.d * b.n)

preciseCompare(a, b) ==
    LET l == a.n * b.d
        r == b.n * a.d
    IN  IF l < r THEN -1 ELSE IF l > r THEN 1 ELSE 0

preciseEquals(a, b) == preciseCompare(a, b) = 0

preciseGreaterThan(a, b) == preciseCompare(a, b) = 1

preciseIsZero(a) == a.n = 0

preciseIsNegative(a) == a.n < 0

preciseMax(a, b) == IF preciseCompare(a, b) >= 0 THEN a ELSE b

\* preciseClamp that leaves out the upper bound.
preciseClamp_lowerOnly(v, lo, hi) ==
    IF preciseCompare(v, lo) < 0 THEN lo ELSE v

preciseClamp(v, lo, hi) ==
    IF preciseCompare(v, lo) < 0 THEN lo
    ELSE IF preciseCompare(v, hi) > 0 THEN hi ELSE v

\* precisePercentage without the division by 100.
precisePercentage_unscaled(value, percent) == preciseMultiply(value, percent)

precisePercentage(value, percent) ==
    preciseDivide(preciseMultiply(value, percent), Whole(100))

RECURSIVE SumFrom(_, _)
SumFrom(s, i) ==
    IF i > Len(s) THEN Zero ELSE preciseAdd(s[i], SumFrom(s, i + 1))

preciseSum(s) == SumFrom(s, 1)

\* TRUE when v has at most s fractional digits.
AtScale(v, s) == (v.n * Pow10(s)) % v.d = 0

(***************************************************************************)
(* Rounding modes.                                                         *)
(***************************************************************************)
RoundingMode ==
    {"ROUND_UP", "ROUND_DOWN", "ROUND_CEIL", "ROUND_FLOOR", "ROUND_HALF_UP",
     "ROUND_HALF_DOWN", "ROUND_HALF_EVEN", "ROUND_HALF_CEIL", "ROUND_HALF_FLOOR"}

PrecisionRoundingMode ==
    {"UP", "DOWN", "CEIL", "FLOOR", "HALF_UP", "HALF_DOWN", "HALF_EVEN",
     "HALF_CEIL", "HALF_FLOOR"}

\* The value a caller passes when it leaves a parameter out.
Undefined == "undefined"

DEFAULT_ROUNDING_MODE == "ROUND_HALF_EVEN"

DEFAULT_DECIMAL_PLACES == 2

DEFAULT_PRECISION_ROUNDING_MODE == "HALF_EVEN"

\* preciseRound with the zero-remainder test left out of the directed modes:
\* a value already on the grid is pushed one unit further.
preciseRound_noExactTest(value, decimalPlaces, mode) ==
    LET p   == Pow10(decimalPlaces)
        lo  == (value.n * p) \div value.d
        rem == (value.n * p) % value.d
        hi  == lo + 1
        pos == value.n > 0
        k   == CASE mode = "UP" -> IF pos THEN hi ELSE lo
                 [] mode = "DOWN" -> IF pos \/ rem = 0 THEN lo ELSE hi
                 [] mode = "CEIL" -> hi
                 [] mode = "FLOOR" -> lo
                 [] OTHER -> IF 2 * rem < value.d THEN lo
                             ELSE IF 2 * rem > value.d THEN hi
                             ELSE IF lo % 2 = 0 THEN lo ELSE hi
    IN  Norm(k, p)

\* The engine's rounding: split value * 10^scale into its floor and a
\* remainder in [0, 1); the remainder and the mode decide between the floor
\* and the floor plus one.
preciseRound(value, decimalPlaces, mode) ==
    LET p   == Pow10(decimalPlaces)
        lo  == (value.n * p) \div value.d
        rem == (value.n * p) % value.d
        hi  == lo + 1
        pos == value.n > 0
        away == IF pos THEN hi ELSE lo
        towards == IF pos THEN lo ELSE hi
        tie == CASE mode = "HALF_UP" -> away
                 [] mode = "HALF_DOWN" -> towards
                 [] mode = "HALF_EVEN" -> IF lo % 2 = 0 THEN lo ELSE hi
                 [] mode = "HALF_CEIL" -> hi
                 [] OTHER -> lo
        k   == IF rem = 0 THEN lo
               ELSE CASE mode = "UP" -> away
                      [] mode = "DOWN" -> towards
                      [] mode = "CEIL" -> hi
                      [] mode = "FLOOR" -> lo
                      [] OTHER -> IF 2 * rem < value.d THEN lo
                                  ELSE IF 2 * rem > value.d THEN hi
                                  ELSE tie
    IN  Norm(k, p)

\* mapRoundingMode with the HALF_DOWN and HALF_FLOOR cases returning the
\* constant of the case above them.
mapRoundingMode_shifted(mode) ==
    CASE mode = "ROUND_UP" -> "UP"
      [] mode = "ROUND_DOWN" -> "DOWN"
      [] mode = "ROUND_CEIL" -> "CEIL"
      [] mode = "ROUND_FLOOR" -> "FLOOR"
      [] mode = "ROUND_HALF_UP" -> "HALF_UP"
      [] mode = "ROUND_HALF_DOWN" -> "HALF_UP"
      [] mode = "ROUND_HALF_EVEN" -> "HALF_EVEN"
      [] mode = "ROUND_HALF_CEIL" -> "HALF_CEIL"
      [] mode = "ROUND_HALF_FLOOR" -> "HALF_CEIL"
      [] OTHER -> DEFAULT_PRECISION_ROUNDING_MODE

mapRoundingMode(mode) ==
    CASE mode = "ROUND_UP" -> "UP"
      [] mode = "ROUND_DOWN" -> "DOWN"
      [] mode = "ROUND_CEIL" -> "CEIL"
      [] mode = "ROUND_FLOOR" -> "FLOOR"
      [] mode = "ROUND_HALF_UP" -> "HALF_UP"
      [] mode = "ROUND_HALF_DOWN" -> "HALF_DOWN"
      [] mode = "ROUND_HALF_EVEN" -> "HALF_EVEN"
      [] mode = "ROUND_HALF_CEIL" -> "HALF_CEIL"
      [] mode = "ROUND_HALF_FLOOR" -> "HALF_FLOOR"
      [] OTHER -> DEFAULT_PRECISION_ROUNDING_MODE

\* round(value, decimalPlaces, mode = DEFAULT_ROUNDING_MODE): a caller that
\* leaves the mode out passes Undefined.
round(value, decimalPlaces, mode) ==
    LET m == IF mode = Undefined THEN DEFAULT_ROUNDING_MODE ELSE mode
    IN  preciseRound(value, decimalPlaces, mapRoundingMode(m))

(***************************************************************************)
(* SpecRound: round applied to a value, and applied again to its result.   *)
(***************************************************************************)
RoundValues ==
    {Dec(k, 1000) : k \in -MaxThousandths..MaxThousandths}
        \cup {Dec(k, 2) : k \in -MaxHalves..MaxHalves}

RoundScales == 0..MaxScale

RoundModes == RoundingMode \cup {Undefined}

InitRound ==
    /\ pc = "round"
    /\ arg \in [value : RoundValues, decimalPlaces : RoundScales, mode : RoundModes]
    /\ out = None
    /\ items = <<>>
    /\ agg = None
    /\ ver = None

RoundOnce ==
    /\ pc = "round"
    /\ out' = [first |-> round(arg.value, arg.decimalPlaces, arg.mode)]
    /\ pc' = "rounded"
    /\ UNCHANGED <<arg, items, agg, ver>>

RoundAgain ==
    /\ pc = "rounded"
    /\ out' = [first |-> out.first,
               second |-> round(out.first, arg.decimalPlaces, arg.mode)]
    /\ pc' = "roundedTwice"
    /\ UNCHANGED <<arg, items, agg, ver>>

NextRound == RoundOnce \/ RoundAgain

SpecRound == InitRound /\ [][NextRound]_vars

preciseAbs(a) == [n |-> Abs(a.n), d |-> a.d]

\* One unit of the last kept digit, 10^-decimalPlaces.
MinorUnit(decimalPlaces) == Norm(1, Pow10(decimalPlaces))

Rounded == pc \in {"rounded", "roundedTwice"}

\* C9: round is idempotent: rounding the result of round again, to the same
\* scale and under the same mode, returns it unchanged.
C9_RoundIdempotent ==
    pc = "roundedTwice" => out.second = out.first

\* A value off the grid has been rounded, and the result rounded again.
C9_Witness ==
    /\ pc = "roundedTwice"
    /\ out.first # arg.value
    /\ arg.mode = "ROUND_UP"

\* What mode prescribes for v at scale s, stated on the result r alone: r is
\* on the grid of 10^-s, less than one unit from v, and on the side of v the
\* mode names; a HALF mode takes the nearest grid point and the mode decides
\* only an exact tie.
Prescribed(v, s, mode, r) ==
    LET u    == MinorUnit(s)
        dist == preciseAbs(preciseSubtract(r, v))
        tie  == preciseEquals(preciseAdd(dist, dist), u)
        away == preciseCompare(preciseAbs(r), preciseAbs(v)) >= 0
        towards == preciseCompare(preciseAbs(r), preciseAbs(v)) <= 0
        up   == preciseCompare(r, v) >= 0
        down == preciseCompare(r, v) <= 0
        even == (preciseDivide(r, u).n) % 2 = 0
    IN  /\ AtScale(r, s)
        /\ preciseCompare(dist, u) < 0
        /\ mode = "ROUND_UP" => away
        /\ mode = "ROUND_DOWN" => towards
        /\ mode = "ROUND_CEIL" => up
        /\ mode = "ROUND_FLOOR" => down
        /\ mode \notin {"ROUND_UP", "ROUND_DOWN", "ROUND_CEIL", "ROUND_FLOOR"} =>
               /\ preciseCompare(preciseAdd(dist, dist), u) <= 0
               /\ tie /\ mode = "ROUND_HALF_UP" => away
               /\ tie /\ mode = "ROUND_HALF_DOWN" => towards
               /\ tie /\ mode = "ROUND_HALF_EVEN" => even
               /\ tie /\ mode = "ROUND_HALF_CEIL" => up
               /\ tie /\ mode = "ROUND_HALF_FLOOR" => down

\* C10: round returns the multiple of 10^-s its mode prescribes (UP away
\* from zero, DOWN towards zero, CEIL up, FLOOR down, the five HALF modes
\* the nearest multiple with ties away from zero, towards zero, to even, up
\* and down), and with the mode left out it rounds as ROUND_HALF_EVEN:
\* 2.5 -> 2, 3.5 -> 4, -2.5 -> -2.
C10_RoundByMode ==
    Rounded =>
        /\ Prescribed(arg.value, arg.decimalPlaces,
                      IF arg.mode = Undefined THEN "ROUND_HALF_EVEN" ELSE arg.mode,
                      out.first)
        /\ arg.mode = Undefined /\ arg.decimalPlaces = 0 =>
               /\ arg.value = Dec(5, 2) => out.first = Whole(2)
               /\ arg.value = Dec(7, 2) => out.first = Whole(4)
               /\ arg.value = Dec(-5, 2) => out.first = Whole(-2)

\* A negative exact tie has been rounded under ROUND_HALF_FLOOR.
C10_Witness ==
    /\ pc = "rounded"
    /\ arg.mode = "ROUND_HALF_FLOOR"
    /\ arg.decimalPlaces = 2
    /\ arg.value = Dec(-15, 1000)
    /\ out.first = Dec(-2, 100)

(***************************************************************************)
(* Currency registry (constant/money.ts).                                  *)
(***************************************************************************)
toUpperCase(c) ==
    CASE c = "inr" -> "INR"
      [] c = "jpy" -> "JPY"
      [] c = "kwd" -> "KWD"
      [] c = "usd" -> "USD"
      [] c = "xyz" -> "XYZ"
      [] OTHER -> c

\* The codes of CURRENCY_CODES the model names.
CURRENCY_CODES == {"INR", "USD", "JPY", "KWD"}

CURRENCY_DECIMAL_PLACES(code) ==
    CASE code = "JPY" -> 0
      [] code = "KWD" -> 3
      [] OTHER -> 2

\* The symbols, written by their code points.
CURRENCY_SYMBOLS(code) ==
    CASE code = "INR" -> "U+20B9"
      [] code = "USD" -> "$"
      [] code = "JPY" -> "U+00A5"
      [] code = "KWD" -> "U+062F.U+0643"

getCurrencyConfig(currencyCode) ==
    LET code == toUpperCase(currencyCode)
    IN  IF code \in CURRENCY_CODES
        THEN [code |-> code,
              symbol |-> CURRENCY_SYMBOLS(code),
              decimalPlaces |-> CURRENCY_DECIMAL_PLACES(code),
              roundingMode |-> DEFAULT_ROUNDING_MODE]
        ELSE [code |-> code,
              symbol |-> code,
              decimalPlaces |-> DEFAULT_DECIMAL_PLACES,
              roundingMode |-> DEFAULT_ROUNDING_MODE]

getCurrencyDecimalPlaces(currencyCode) ==
    getCurrencyConfig(currencyCode).decimalPlaces

\* roundForCurrency(value, currency, mode = DEFAULT_ROUNDING_MODE)
roundForCurrency(value, currency) ==
    round(value, getCurrencyDecimalPlaces(currency), Undefined)

(***************************************************************************)
(* Line items.                                                             *)
(***************************************************************************)
\* An optional decimal argument the caller left out.
Absent == [n |-> 0, d |-> 0]

\* safeParsePreciseString(value, '0')
safeParsePreciseString(value) == IF value = Absent THEN Zero ELSE value

\* mathFloor(safeToNumber(quantity, 1))
mathFloor(q) == q.n \div q.d

\* mathMax that returns its first argument.
mathMax_first(a, b) == a

mathMax(a, b) == IF a >= b THEN a ELSE b

validateLineItemInput(input) ==
    LET parsedPrice == safeParsePreciseString(input.unitPrice)
        unitPrice == IF preciseIsNegative(parsedPrice) THEN Zero ELSE parsedPrice
        rawQuantity == mathFloor(input.quantity)
        quantity == mathMax(rawQuantity, 1)
        parsedDiscount == safeParsePreciseString(input.discountAmount)
        discountAmount ==
            preciseClamp(parsedDiscount, Zero, preciseMax(parsedDiscount, Zero))
        parsedRate == safeParsePreciseString(input.taxRate)
        taxRate == preciseClamp(parsedRate, Zero, Whole(100))
        errors ==
            (IF preciseIsNegative(parsedPrice)
             THEN <<"Unit price cannot be negative">> ELSE <<>>)
            \o (IF preciseCompare(input.quantity, Whole(1)) < 0
                THEN <<"Quantity must be at least 1">> ELSE <<>>)
            \o (IF preciseIsNegative(parsedDiscount)
                THEN <<"Discount cannot be negative">> ELSE <<>>)
            \o (IF preciseIsNegative(parsedRate)
                THEN <<"Tax rate cannot be negative">> ELSE <<>>)
            \o (IF preciseGreaterThan(parsedRate, Whole(100))
                THEN <<"Tax rate cannot exceed 100%">> ELSE <<>>)
    IN  [unitPrice |-> unitPrice,
         quantity |-> quantity,
         discountAmount |-> discountAmount,
         taxRate |-> taxRate,
         currency |-> IF input.currency \in {"", Undefined} THEN "INR"
                      ELSE input.currency,
         isValid |-> errors = <<>>,
         errors |-> errors]

calculateLineItem(input) ==
    LET validated == validateLineItemInput(input)
        unitPrice == validated.unitPrice
        quantity == validated.quantity
        discountAmount == validated.discountAmount
        taxRate == validated.taxRate
        currency == validated.currency
        decimalPlaces == getCurrencyDecimalPlaces(currency)
        grossAmount ==
            roundForCurrency(preciseMultiply(unitPrice, Whole(quantity)), currency)
        effectiveDiscount ==
            IF preciseGreaterThan(discountAmount, grossAmount)
            THEN grossAmount ELSE discountAmount
        taxableAmount ==
            roundForCurrency(preciseSubtract(grossAmount, effectiveDiscount), currency)
        taxAmount ==
            roundForCurrency(precisePercentage(taxableAmount, taxRate), currency)
        total == roundForCurrency(preciseAdd(taxableAmount, taxAmount), currency)
    IN  [input |-> [unitPrice |-> unitPrice,
                    quantity |-> quantity,
                    discountAmount |-> effectiveDiscount,
                    taxRate |-> taxRate],
         calculated |-> [grossAmount |-> grossAmount,
                         taxableAmount |-> taxableAmount,
                         taxAmount |-> taxAmount,
                         total |-> total],
         roundingAdjustment |-> Zero,
         currency |-> currency,
         decimalPlaces |-> decimalPlaces]

\* The result of a call that threw.
Threw(message) == [threw |-> message]

HasThrown(result) == "threw" \in DOMAIN result

\* enteredAdjustment with the operands of the subtraction exchanged.
enteredAdjustment_reversed(total, recomputedTotal) ==
    preciseSubtract(recomputedTotal, total)

\* const adjustment = preciseSubtract(total, recomputedTotal)
enteredAdjustment(total, recomputedTotal) ==
    preciseSubtract(total, recomputedTotal)

\* returnedTotal handing back the recomputed total.
returnedTotal_recomputed(total, recomputedTotal) == recomputedTotal

\* total: total, // Use the entered total, not recomputed
returnedTotal(total, recomputedTotal) == total

\* The first k fractional digits of r / den, for 0 <= r < den, by long division.
RECURSIVE FractionDigits(_, _, _)
FractionDigits(r, den, k) ==
    IF k = 0 THEN <<>>
    ELSE <<(r * 10) \div den>> \o FractionDigits((r * 10) % den, den, k - 1)

\* preciseDivideTo that drops every fractional digit of the quotient.
preciseDivideTo_whole(a, b, precision) ==
    [negative |-> a.n * b.n < 0,
     whole |-> Abs(a.n * b.d) \div Abs(a.d * b.n),
     fraction |-> [i \in 1..precision |-> 0]]

\* preciseDivide(a, b, precision): the quotient cut to precision fractional
\* digits, as a decimal string: its sign, its integer part and its
\* fractional digits.
preciseDivideTo(a, b, precision) ==
    LET num == Abs(a.n * b.d)
        den == Abs(a.d * b.n)
    IN  [negative |-> a.n * b.n < 0,
         whole |-> num \div den,
         fraction |-> FractionDigits(num % den, den, precision)]

\* The natural number a sequence of digits writes.
RECURSIVE DigitsValue(_)
DigitsValue(digits) ==
    IF digits = <<>> THEN 0
    ELSE DigitsValue(SubSeq(digits, 1, Len(digits) - 1)) * 10 + digits[Len(digits)]

\* parseToString of a decimal string x that is about to be rounded to
\* decimalPlaces: x cut after decimalPlaces + 1 fractional digits, the last
\* of them raised by one when it is 0 or 5 and a digit cut off is not zero.
\* It lies on the same side of every tie and of every multiple of the minor
\* unit as x, so it rounds to decimalPlaces as x does.
RoundingOperand(x, decimalPlaces) ==
    LET kept == decimalPlaces + 1
        head == DigitsValue(SubSeq(x.fraction, 1, decimalPlaces))
        digit == x.fraction[kept]
        later == \E i \in (kept + 1)..Len(x.fraction) : x.fraction[i] # 0
        last == IF later /\ digit \in {0, 5} THEN digit + 1 ELSE digit
        magnitude == (x.whole * Pow10(decimalPlaces) + head) * 10 + last
    IN  Dec(IF x.negative THEN -magnitude ELSE magnitude, Pow10(kept))

\* taxMultiplier without the 1: the rate as a fraction.
taxMultiplier_rateOnly(tax) == preciseDivide(tax, Whole(100))

\* const taxMultiplier = preciseAdd('1', preciseDivide(tax, '100'))
taxMultiplier(tax) == preciseAdd(Whole(1), preciseDivide(tax, Whole(100)))

\* calculateLineItemFromTotal(enteredTotal, quantity, taxRate,
\*                            discountAmount = '0', currency = 'INR')
calculateLineItemFromTotal(enteredTotal, quantity, taxRate, discountAmount, currency0) ==
    LET currency == IF currency0 = Undefined THEN "INR" ELSE currency0
        decimalPlaces == getCurrencyDecimalPlaces(currency)
        total == roundForCurrency(enteredTotal, currency)
        discount == safeParsePreciseString(discountAmount)
        tax == safeParsePreciseString(taxRate)
        qty == mathMax(1, mathFloor(quantity))
        taxableAmount ==
            roundForCurrency(preciseDivide(total, taxMultiplier(tax)), currency)
        grossAmount ==
            roundForCurrency(preciseAdd(taxableAmount, discount), currency)
        exactUnitPrice == preciseDivideTo(grossAmount, Whole(qty), 10)
        displayedUnitPrice ==
            roundForCurrency(RoundingOperand(exactUnitPrice, decimalPlaces), currency)
        recomputedResult ==
            calculateLineItem([unitPrice |-> displayedUnitPrice,
                               quantity |-> Whole(qty),
                               discountAmount |-> discount,
                               taxRate |-> tax,
                               currency |-> currency])
        recomputedTotal == recomputedResult.calculated.total
        adjustment == enteredAdjustment(total, recomputedTotal)
        hasAdjustment == ~preciseIsZero(adjustment)
    IN  IF preciseIsZero(taxMultiplier(tax)) THEN Threw("Division by zero")
        ELSE [input |-> [unitPrice |-> displayedUnitPrice,
                         quantity |-> qty,
                         discountAmount |-> discount,
                         taxRate |-> tax],
              calculated |-> [grossAmount |-> recomputedResult.calculated.grossAmount,
                              taxableAmount |-> recomputedResult.calculated.taxableAmount,
                              taxAmount |-> recomputedResult.calculated.taxAmount,
                              total |-> returnedTotal(total, recomputedTotal)],
              exactUnitPrice |-> exactUnitPrice,
              displayedUnitPrice |-> displayedUnitPrice,
              recomputedTotal |-> recomputedTotal,
              roundingAdjustment |-> adjustment,
              hasAdjustment |-> hasAdjustment,
              currency |-> currency,
              decimalPlaces |-> decimalPlaces]

(***************************************************************************)
(* Aggregation and the integrity check.                                    *)
(***************************************************************************)
\* items.map((item) => f(item))
RECURSIVE MapSeq(_, _)
MapSeq(f(_), s) ==
    IF s = <<>> THEN <<>> ELSE <<f(Head(s))>> \o MapSeq(f, Tail(s))

TaxableOf(item) == item.calculated.taxableAmount

TaxOf(item) == item.calculated.taxAmount

TotalOf(item) == item.calculated.total

AdjustmentOf(item) == item.roundingAdjustment

\* aggregateLineItems(items, currency = 'INR')
aggregateLineItems(its, currency0) ==
    LET currency == IF currency0 = Undefined THEN "INR" ELSE currency0
        totalTaxable == roundForCurrency(preciseSum(MapSeq(TaxableOf, its)), currency)
        totalTax == roundForCurrency(preciseSum(MapSeq(TaxOf, its)), currency)
        totalBeforeAdjustment ==
            roundForCurrency(preciseAdd(totalTaxable, totalTax), currency)
        totalAdjustment == preciseSum(MapSeq(AdjustmentOf, its))
        grandTotal ==
            roundForCurrency(preciseAdd(totalBeforeAdjustment, totalAdjustment),
                             currency)
        sumOfLineTotals ==
            roundForCurrency(preciseSum(MapSeq(TotalOf, its)), currency)
        finalAdjustment ==
            IF ~preciseEquals(grandTotal, sumOfLineTotals)
            THEN preciseAdd(totalAdjustment,
                            preciseSubtract(sumOfLineTotals, grandTotal))
            ELSE totalAdjustment
    IN  IF Len(its) = 0
        THEN [totalTaxable |-> Zero,
              totalTax |-> Zero,
              totalBeforeAdjustment |-> Zero,
              totalAdjustment |-> Zero,
              grandTotal |-> Zero,
              itemCount |-> 0,
              hasAdjustments |-> FALSE,
              items |-> <<>>,
              currency |-> currency]
        ELSE [totalTaxable |-> totalTaxable,
              totalTax |-> totalTax,
              totalBeforeAdjustment |-> totalBeforeAdjustment,
              totalAdjustment |-> roundForCurrency(finalAdjustment, currency),
              grandTotal |-> sumOfLineTotals,
              itemCount |-> Len(its),
              hasAdjustments |-> ~preciseIsZero(finalAdjustment),
              items |-> its,
              currency |-> currency]

\* The indices of the items verifyInvoiceIntegrity reports, in ascending
\* order: those whose stored total differs from
\* roundForCurrency(taxable + tax + adjustment, aggregation.currency).
LineItemErrors(aggregation) ==
    {i \in 1..Len(aggregation.items) :
        LET item == aggregation.items[i]
            expectedTotal ==
                roundForCurrency(
                    preciseAdd(preciseAdd(item.calculated.taxableAmount,
                                          item.calculated.taxAmount),
                               item.roundingAdjustment),
                    aggregation.currency)
        IN  ~preciseEquals(item.calculated.total, expectedTotal)}

\* verifyInvoiceIntegrity(aggregation).  errors holds one entry per
\* message: the index of a line item, or "grandTotal".
verifyInvoiceIntegrity(aggregation) ==
    LET currency == aggregation.currency
        lineErrors == LineItemErrors(aggregation)
        expectedGrandTotal ==
            roundForCurrency(preciseSum(MapSeq(TotalOf, aggregation.items)), currency)
        grandError == ~preciseEquals(aggregation.grandTotal, expectedGrandTotal)
        errorCount == Cardinality(lineErrors) + (IF grandError THEN 1 ELSE 0)
    IN  [isValid |-> errorCount = 0,
         lineErrors |-> lineErrors,
         grandTotalError |-> grandError,
         errorCount |-> errorCount,
         details |-> [expectedGrandTotal |-> expectedGrandTotal,
                      actualGrandTotal |-> aggregation.grandTotal,
                      difference |-> preciseSubtract(aggregation.grandTotal,
                                                     expectedGrandTotal)]]

\* splitTaxCGSTSGST(taxAmount, currency = 'INR')
splitTaxCGSTSGST(taxAmount, currency0) ==
    LET currency == IF currency0 = Undefined THEN "INR" ELSE currency0
        tax == taxAmount
        half == preciseDivide(tax, Whole(2))
        cgst == roundForCurrency(half, currency)
        sgst == roundForCurrency(preciseSubtract(tax, cgst), currency)
    IN  [cgst |-> cgst, sgst |-> sgst]

(***************************************************************************)
(* SpecLineItem: one call of calculateLineItem or of                       *)
(* calculateLineItemFromTotal on arguments drawn from the sets below.      *)
(***************************************************************************)
MaxQuantity == 3

\* Unit prices and entered totals, valid and invalid.
LineAmounts ==
    {Whole(-1), Zero, Dec(5, 1000), Dec(1005, 1000), Dec(3335, 1000),
     Whole(10), Dec(118, 10), Dec(16667, 1000), Whole(50), Dec(9999, 100)}

LineQuantities == {Whole(q) : q \in 0..MaxQuantity} \cup {Dec(3, 2), Whole(7)}

LineDiscounts == {Absent, Whole(-1), Zero, Dec(5, 10), Dec(125, 1000), Whole(200)}

LineTaxRates ==
    {Whole(-100), Whole(-5), Zero, Whole(5), Dec(125, 10), Whole(18),
     Whole(100), Whole(150)}

LineCurrencies == {Undefined, "", "INR", "JPY", "KWD", "jpy", "XYZ"}

LineArgs ==
    [amount : LineAmounts, quantity : LineQuantities, discountAmount : LineDiscounts,
     taxRate : LineTaxRates, currency : LineCurrencies]

InitLineItem ==
    /\ pc = "lineItem"
    /\ arg \in LineArgs
    /\ out = None
    /\ items = <<>>
    /\ agg = None
    /\ ver = None

\* calculateLineItem({unitPrice, quantity, discountAmount, taxRate, currency})
CallCalculateLineItem ==
    /\ pc = "lineItem"
    /\ out' = calculateLineItem([unitPrice |-> arg.amount,
                                 quantity |-> arg.quantity,
                                 discountAmount |-> arg.discountAmount,
                                 taxRate |-> arg.taxRate,
                                 currency |-> arg.currency])
    /\ pc' = "derived"
    /\ UNCHANGED <<arg, items, agg, ver>>

\* calculateLineItemFromTotal(enteredTotal, quantity, taxRate, discountAmount, currency)
CallCalculateLineItemFromTotal ==
    /\ pc = "lineItem"
    /\ out' = calculateLineItemFromTotal(arg.amount, arg.quantity, arg.taxRate,
                                         arg.discountAmount, arg.currency)
    /\ pc' = "entered"
    /\ UNCHANGED <<arg, items, agg, ver>>

NextLineItem == CallCalculateLineItem \/ CallCalculateLineItemFromTotal

SpecLineItem == InitLineItem /\ [][NextLineItem]_vars

\* A line-item result has been returned.
LineItemReturned == pc \in {"derived", "entered"} /\ ~HasThrown(out)

\* C1: in both modes the returned total equals taxableAmount + taxAmount +
\* roundingAdjustment exactly, all of them decimals at the currency's scale.
C1_TotalIsTaxablePlusTaxPlusAdjustment ==
    LineItemReturned =>
        /\ out.calculated.total =
               preciseAdd(preciseAdd(out.calculated.taxableAmount,
                                     out.calculated.taxAmount),
                          out.roundingAdjustment)
        /\ AtScale(out.calculated.total, out.decimalPlaces)
        /\ AtScale(out.calculated.taxableAmount, out.decimalPlaces)
        /\ AtScale(out.calculated.taxAmount, out.decimalPlaces)
        /\ AtScale(out.roundingAdjustment, out.decimalPlaces)

\* An entered-total call whose recomputed total missed the entered one.
C1_Witness ==
    /\ pc = "entered"
    /\ ~HasThrown(out)
    /\ ~preciseIsZero(out.roundingAdjustment)
    /\ ~preciseIsZero(out.calculated.taxAmount)

\* C7: calculateLineItemFromTotal returns the entered total rounded to the
\* currency's scale as calculated.total, that total minus recomputedTotal as
\* roundingAdjustment, and hasAdjustment true exactly when the adjustment is
\* not zero.
C7_EnteredTotalKept ==
    (pc = "entered" /\ ~HasThrown(out)) =>
        /\ out.calculated.total =
               preciseRound(arg.amount, out.decimalPlaces, "HALF_EVEN")
        /\ out.roundingAdjustment =
               preciseSubtract(out.calculated.total, out.recomputedTotal)
        /\ out.hasAdjustment <=> (out.roundingAdjustment.n # 0)

\* The entered total had to be rounded and differs from the recomputed one.
C7_Witness ==
    /\ pc = "entered"
    /\ ~HasThrown(out)
    /\ out.hasAdjustment
    /\ out.calculated.total # arg.amount
    /\ out.calculated.total # out.recomputedTotal

(***************************************************************************)
(* Spec: an invoice.  A caller computes line items in either mode, hands   *)
(* the list to aggregateLineItems and the aggregation to                   *)
(* verifyInvoiceIntegrity.                                                 *)
(***************************************************************************)
MaxItems == 2

InvoiceDerivedInputs ==
    [unitPrice : {Dec(1005, 1000), Dec(3335, 1000)},
     quantity : {Whole(1), Whole(3)},
     discountAmount : {Absent},
     taxRate : {Zero, Dec(125, 10)},
     currency : {"INR", "JPY", "KWD"}]
        \cup {[unitPrice |-> Whole(-1), quantity |-> Zero,
               discountAmount |-> Whole(-1), taxRate |-> Whole(150),
               currency |-> Undefined],
              [unitPrice |-> Whole(10), quantity |-> Whole(2),
               discountAmount |-> Whole(200), taxRate |-> Whole(18),
               currency |-> "USD"]}

InvoiceEnteredInputs ==
    [amount : {Whole(100), Dec(50005, 1000)},
     quantity : {Whole(3)},
     taxRate : {Whole(18), Whole(-100)},
     discountAmount : {Zero},
     currency : {Undefined, "JPY", "KWD"}]
        \cup {[amount |-> Whole(25), quantity |-> Whole(3),
               taxRate |-> Whole(18), discountAmount |-> Zero,
               currency |-> Undefined],
              [amount |-> Dec(2451, 1000), quantity |-> Whole(7),
               taxRate |-> Whole(5), discountAmount |-> Zero, currency |-> "KWD"],
              [amount |-> Dec(1128, 1000), quantity |-> Whole(7),
               taxRate |-> Dec(125, 10), discountAmount |-> Zero,
               currency |-> "KWD"]}

AggregationCurrencies == {Undefined, "INR", "JPY", "KWD"}

Init ==
    /\ pc = "building"
    /\ arg = None
    /\ out = None
    /\ items = <<>>
    /\ agg = None
    /\ ver = None

AddDerivedItem ==
    /\ pc = "building"
    /\ Len(items) < MaxItems
    /\ \E input \in InvoiceDerivedInputs :
          items' = Append(items, calculateLineItem(input))
    /\ UNCHANGED <<pc, arg, out, agg, ver>>

\* A call that throws adds no item; the error is kept in out.
AddEnteredItem ==
    /\ pc = "building"
    /\ Len(items) < MaxItems
    /\ \E e \in InvoiceEnteredInputs :
          \E result \in {calculateLineItemFromTotal(e.amount, e.quantity, e.taxRate,
                                                    e.discountAmount, e.currency)} :
              /\ out' = IF HasThrown(result) THEN result ELSE out
              /\ items' = IF HasThrown(result) THEN items ELSE Append(items, result)
    /\ UNCHANGED <<pc, arg, agg, ver>>

Aggregate ==
    /\ pc = "building"
    /\ \E currency \in AggregationCurrencies :
          agg' = aggregateLineItems(items, currency)
    /\ pc' = "aggregated"
    /\ UNCHANGED <<arg, out, items, ver>>

Verify ==
    /\ pc = "aggregated"
    /\ ver' = verifyInvoiceIntegrity(agg)
    /\ pc' = "verified"
    /\ UNCHANGED <<arg, out, items, agg>>

Next == AddDerivedItem \/ AddEnteredItem \/ Aggregate \/ Verify

Spec == Init /\ [][Next]_vars

Aggregated == pc \in {"aggregated", "verified"}

\* Every aggregated item was computed at a scale the aggregation currency
\* keeps.
ScaleKept ==
    \A i \in 1..Len(items) :
        items[i].decimalPlaces <= getCurrencyDecimalPlaces(agg.currency)

\* C2: the grand total of a non-empty item list is the exact sum of the
\* items' totals, whatever currency argument the aggregation is given.
C2_GrandTotalIsSumOfLineTotals ==
    (Aggregated /\ Len(items) > 0) =>
        agg.grandTotal = preciseSum(MapSeq(TotalOf, items))

\* The grand total is the sum of the line totals when the aggregation
\* currency keeps the scale of every item.
GrandTotalIsSumWhenScaleKept ==
    (Aggregated /\ Len(items) > 0 /\ ScaleKept) =>
        agg.grandTotal = preciseSum(MapSeq(TotalOf, items))

\* C3: verifyInvoiceIntegrity accepts every output of aggregateLineItems
\* with an empty error list, for mixed lists and for the empty list.
C3_AggregationVerifies ==
    pc = "verified" => (ver.isValid /\ ver.errorCount = 0)

\* verifyInvoiceIntegrity accepts the aggregation when the aggregation
\* currency keeps the scale of every item.
AggregationVerifiesWhenScaleKept ==
    (pc = "verified" /\ ScaleKept) => (ver.isValid /\ ver.errorCount = 0)

\* A mixed list, one item of each mode, the second with an adjustment, has
\* been aggregated and verified at a scale that keeps the items'.
MixedListVerified ==
    /\ pc = "verified"
    /\ Len(items) = 2
    /\ "hasAdjustment" \notin DOMAIN items[1]
    /\ "hasAdjustment" \in DOMAIN items[2]
    /\ items[2].hasAdjustment
    /\ ScaleKept
    /\ ver.isValid

(***************************************************************************)
(* SpecTax: one call of splitTaxCGSTSGST.                                  *)
(***************************************************************************)
MaxTaxHalfUnits == 12

\* Tax amounts: multiples of 0.0005 around zero, and of 0.5 around 181.
TaxAmounts ==
    {Dec(k, 2000) : k \in -MaxTaxHalfUnits..MaxTaxHalfUnits}
        \cup {Dec(360 + k, 2) : k \in -MaxTaxHalfUnits..MaxTaxHalfUnits}

TaxCurrencies == {Undefined, "INR", "JPY", "KWD", "usd"}

InitTax ==
    /\ pc = "tax"
    /\ arg \in [taxAmount : TaxAmounts, currency : TaxCurrencies]
    /\ out = None
    /\ items = <<>>
    /\ agg = None
    /\ ver = None

CallSplitTaxCGSTSGST ==
    /\ pc = "tax"
    /\ out' = splitTaxCGSTSGST(arg.taxAmount, arg.currency)
    /\ pc' = "split"
    /\ UNCHANGED <<arg, items, agg, ver>>

NextTax == CallSplitTaxCGSTSGST

SpecTax == InitTax /\ [][NextTax]_vars

\* The scale of the currency a tax helper was called with.
TaxScale ==
    getCurrencyDecimalPlaces(IF arg.currency = Undefined THEN "INR" ELSE arg.currency)

\* C8: for every tax amount and currency, cgst + sgst is the tax amount
\* exactly, cgst being half the tax rounded to the currency's scale.
C8_SplitConservesTax ==
    pc = "split" =>
        /\ preciseAdd(out.cgst, out.sgst) = arg.taxAmount
        /\ out.cgst = preciseRound(preciseDivide(arg.taxAmount, Whole(2)),
                                   TaxScale, "HALF_EVEN")

\* The split conserves every tax amount that is at the currency's scale.
SplitConservesTaxAtScale ==
    (pc = "split" /\ AtScale(arg.taxAmount, TaxScale)) =>
        preciseAdd(out.cgst, out.sgst) = arg.taxAmount

\* An odd number of minor units has been split into unequal halves.
OddTaxSplit ==
    /\ pc = "split"
    /\ AtScale(arg.taxAmount, TaxScale)
    /\ out.cgst # out.sgst

(***************************************************************************)
(* SpecAdjust: distributeRoundingAdjustment(values, targetTotal,           *)
(* decimalPlaces), its while loop one iteration per step.  While the call  *)
(* runs, out holds its locals: result, difference, increment and index.    *)
(***************************************************************************)
MaxValues == 3

\* The factor of the loop's safety limit, index < result.length * 10.
SafetyFactor == 10

AdjustValues == {Dec(5, 1000), Dec(333, 1000), Whole(1)}

AdjustLists ==
    UNION {[1..n -> AdjustValues] : n \in 0..MaxValues}

AdjustTargets ==
    {Zero, Dec(2, 100), Whole(1), Dec(1005, 1000), Dec(-1, 10), Whole(2), Whole(4)}

InitAdjust ==
    /\ pc = "adjust"
    /\ arg \in [values : AdjustLists, targetTotal : AdjustTargets,
                decimalPlaces : 0..MaxScale]
    /\ out = None
    /\ items = <<>>
    /\ agg = None
    /\ ver = None

\* round(v, decimalPlaces)
RoundDefault(v) == round(v, arg.decimalPlaces, Undefined)

\* From the entry of the function to the first test of the loop condition.
\* '0'.repeat(decimalPlaces - 1) throws a RangeError when decimalPlaces is 0.
AdjustCall ==
    /\ pc = "adjust"
    /\ \E roundedValues \in {MapSeq(RoundDefault, arg.values)} :
       \E currentSum \in {preciseSum(roundedValues)} :
       \E difference \in {preciseSubtract(arg.targetTotal, currentSum)} :
       LET unit == Norm(1, Pow10(arg.decimalPlaces))
           increment == IF preciseGreaterThan(difference, Zero)
                        THEN unit ELSE preciseSubtract(Zero, unit)
       IN  IF Len(arg.values) = 0
           THEN out' = [result |-> <<>>] /\ pc' = "adjustReturned"
           ELSE IF preciseIsZero(difference)
           THEN out' = [result |-> roundedValues] /\ pc' = "adjustReturned"
           ELSE IF arg.decimalPlaces - 1 < 0
           THEN out' = Threw("RangeError: Invalid count value") /\ pc' = "adjustThrew"
           ELSE /\ out' = [result |-> roundedValues,
                           difference |-> difference,
                           increment |-> increment,
                           index |-> 0]
                /\ pc' = "adjustLoop"
    /\ UNCHANGED <<arg, items, agg, ver>>

\* AdjustLoopCondition letting the index reach the limit before it stops.
AdjustLoopCondition_inclusive ==
    /\ ~preciseIsZero(out.difference)
    /\ out.index <= Len(out.result) * SafetyFactor

\* while (!preciseIsZero(difference) && index < result.length * 10)
AdjustLoopCondition ==
    /\ ~preciseIsZero(out.difference)
    /\ out.index < Len(out.result) * SafetyFactor

AdjustStep ==
    /\ pc = "adjustLoop"
    /\ AdjustLoopCondition
    /\ LET itemIndex == (out.index % Len(out.result)) + 1
       IN  out' = [out EXCEPT
                     !.result[itemIndex] = preciseAdd(@, out.increment),
                     !.difference = preciseSubtract(@, out.increment),
                     !.index = @ + 1]
    /\ UNCHANGED <<pc, arg, items, agg, ver>>

AdjustReturn ==
    /\ pc = "adjustLoop"
    /\ ~AdjustLoopCondition
    /\ pc' = "adjustReturned"
    /\ UNCHANGED <<arg, out, items, agg, ver>>

NextAdjust == AdjustCall \/ AdjustStep \/ AdjustReturn

SpecAdjust == InitAdjust /\ [][NextAdjust]_vars

\* C6: for every non-empty values list, target total and decimalPlaces the
\* call returns a list as long as values whose entries sum to the target.
C6_AdjustedSumIsTarget ==
    (pc \in {"adjustReturned", "adjustThrew"} /\ Len(arg.values) > 0) =>
        /\ pc = "adjustReturned"
        /\ Len(out.result) = Len(arg.values)
        /\ preciseSum(out.result) = arg.targetTotal

\* The residual is a whole number of minor units, at most
\* SafetyFactor * n of them, and decimalPlaces is at least 1.
AdjustWithinReach ==
    LET residual ==
            preciseSubtract(arg.targetTotal,
                            preciseSum(MapSeq(RoundDefault, arg.values)))
        units == preciseDivide(residual, MinorUnit(arg.decimalPlaces))
    IN  /\ arg.decimalPlaces >= 1
        /\ units.d = 1
        /\ Abs(units.n) <= SafetyFactor * Len(arg.values)

\* Within that reach the returned entries sum to the target.
AdjustedSumIsTargetWithinReach ==
    (pc \in {"adjustReturned", "adjustThrew"} /\ Len(arg.values) > 0
        /\ AdjustWithinReach) =>
        /\ pc = "adjustReturned"
        /\ Len(out.result) = Len(arg.values)
        /\ preciseSum(out.result) = arg.targetTotal

\* The loop has handed out a residual and the call has returned.
ResidualHandedOut ==
    /\ pc = "adjustReturned"
    /\ "index" \in DOMAIN out
    /\ out.index > Len(arg.values)
    /\ preciseSum(out.result) = arg.targetTotal

(***************************************************************************)
(* SpecShare: distribute(total, n) and allocate(total, weights), the       *)
(* engine's preciseDistribute and preciseAllocate, by the algorithm of     *)
(* the specification: every part rounded to the scale of the total, the   *)
(* residual handed out one minor unit at a time from index 0, at most     *)
(* SafetyFactor * n times.                                                 *)
(***************************************************************************)
MaxShareUnits == 15

MaxParts == 4

MaxWeight == 3

MaxWeights == 3

RECURSIVE RedistributeFrom(_, _, _, _)
RedistributeFrom(parts, residual, increment, index) ==
    IF preciseIsZero(residual) \/ index >= SafetyFactor * Len(parts)
    THEN parts
    ELSE RedistributeFrom(
             [parts EXCEPT ![(index % Len(parts)) + 1] = preciseAdd(@, increment)],
             preciseSubtract(residual, increment), increment, index + 1)

\* The rounded parts with the residual of total handed out.
Redistribute(parts, total, decimalPlaces) ==
    LET residual == preciseSubtract(total, preciseSum(parts))
        unit == MinorUnit(decimalPlaces)
        increment == IF preciseGreaterThan(residual, Zero)
                     THEN unit ELSE preciseSubtract(Zero, unit)
    IN  RedistributeFrom(parts, residual, increment, 0)

\* distribute that returns the rounded shares as they are.
distribute_roundedOnly(total, n, decimalPlaces) ==
    IF n = 0 THEN Threw("Division by zero")
    ELSE [parts |-> [i \in 1..n |->
                        preciseRound(preciseDivide(total, Whole(n)),
                                     decimalPlaces, DEFAULT_PRECISION_ROUNDING_MODE)]]

distribute(total, n, decimalPlaces) ==
    IF n = 0 THEN Threw("Division by zero")
    ELSE LET share == preciseRound(preciseDivide(total, Whole(n)), decimalPlaces,
                                   DEFAULT_PRECISION_ROUNDING_MODE)
         IN  [parts |-> Redistribute([i \in 1..n |-> share], total, decimalPlaces)]

\* The share of one weight before reconciliation.
ProportionalShare(total, weight, weightSum, decimalPlaces) ==
    preciseRound(preciseDivide(preciseMultiply(total, Whole(weight)),
                               Whole(weightSum)),
                 decimalPlaces, DEFAULT_PRECISION_ROUNDING_MODE)

RECURSIVE IntSum(_)
IntSum(w) == IF w = <<>> THEN 0 ELSE Head(w) + IntSum(Tail(w))

\* allocate that returns the rounded shares as they are.
allocate_roundedOnly(total, weights, decimalPlaces) ==
    IF IntSum(weights) = 0 THEN Threw("Division by zero")
    ELSE [parts |-> [i \in 1..Len(weights) |->
                        ProportionalShare(total, weights[i], IntSum(weights),
                                          decimalPlaces)]]

allocate(total, weights, decimalPlaces) ==
    IF IntSum(weights) = 0 THEN Threw("Division by zero")
    ELSE [parts |->
            Redistribute([i \in 1..Len(weights) |->
                             ProportionalShare(total, weights[i], IntSum(weights),
                                               decimalPlaces)],
                         total, decimalPlaces)]

\* Totals at scale s: whole numbers of minor units.
ShareTotals(s) ==
    {preciseMultiply(Whole(k), MinorUnit(s)) : k \in -MaxShareUnits..MaxShareUnits}

WeightLists == UNION {[1..m -> 0..MaxWeight] : m \in 1..MaxWeights}

DistributeArgs ==
    UNION {[kind : {"distribute"}, total : ShareTotals(s), decimalPlaces : {s},
            n : 1..MaxParts] : s \in 0..MaxScale}

AllocateArgs ==
    UNION {[kind : {"allocate"}, total : ShareTotals(s), decimalPlaces : {s},
            weights : WeightLists] : s \in 0..MaxScale}

InitShare ==
    /\ pc = "share"
    /\ arg \in DistributeArgs \cup AllocateArgs
    /\ out = None
    /\ items = <<>>
    /\ agg = None
    /\ ver = None

CallDistribute ==
    /\ pc = "share"
    /\ arg.kind = "distribute"
    /\ out' = distribute(arg.total, arg.n, arg.decimalPlaces)
    /\ pc' = "distributed"
    /\ UNCHANGED <<arg, items, agg, ver>>

CallAllocate ==
    /\ pc = "share"
    /\ arg.kind = "allocate"
    /\ out' = allocate(arg.total, arg.weights, arg.decimalPlaces)
    /\ pc' = "allocated"
    /\ UNCHANGED <<arg, items, agg, ver>>

NextShare == CallDistribute \/ CallAllocate

SpecShare == InitShare /\ [][NextShare]_vars

trackedAdjustment_reversed(rounded, original) == preciseSubtract(original, rounded)

\* const adjustment = preciseSubtract(rounded, original)
trackedAdjustment(rounded, original) == preciseSubtract(rounded, original)

\* roundWithAdjustment(value, decimalPlaces, mode = DEFAULT_ROUNDING_MODE)
roundWithAdjustment(value, decimalPlaces, mode) ==
    LET m == IF mode = Undefined THEN DEFAULT_ROUNDING_MODE ELSE mode
        original == value
        rounded == round(original, decimalPlaces, m)
        adjustment == trackedAdjustment(rounded, original)
    IN  [original |-> original,
         rounded |-> rounded,
         adjustment |-> adjustment,
         decimalPlaces |-> decimalPlaces,
         roundingMode |-> m,
         hasAdjustment |-> ~preciseIsZero(adjustment)]

CallRoundWithAdjustment ==
    /\ pc = "round"
    /\ out' = roundWithAdjustment(arg.value, arg.decimalPlaces, arg.mode)
    /\ pc' = "tracked"
    /\ UNCHANGED <<arg, items, agg, ver>>

NextTrack == CallRoundWithAdjustment

SpecTrack == InitRound /\ [][NextTrack]_vars

\* C11: roundWithAdjustment returns rounded = round(original, scale, mode),
\* adjustment = rounded - original exactly, so that original + adjustment is
\* rounded, and hasAdjustment true exactly when the adjustment is not zero.
C11_AdjustmentTracked ==
    pc = "tracked" =>
        /\ out.original = arg.value
        /\ out.rounded = round(arg.value, arg.decimalPlaces, arg.mode)
        /\ out.adjustment = preciseSubtract(out.rounded, out.original)
        /\ preciseAdd(out.original, out.adjustment) = out.rounded
        /\ out.hasAdjustment <=> (out.adjustment.n # 0)

\* A value rounded up under the default mode: the adjustment is positive.
C11_Witness ==
    /\ pc = "tracked"
    /\ arg.mode = Undefined
    /\ arg.decimalPlaces = 2
    /\ arg.value = Dec(16, 1000)
    /\ out.adjustment = Dec(4, 1000)
    /\ out.hasAdjustment

(***************************************************************************)
(* SpecMoney: addMoney, subtractMoney and addCurrencyMoney on two operands *)
(* built by createMoney and createCurrencyMoney.                           *)
(***************************************************************************)
MaxMoneyUnits == 4

\* createMoney(amount, currency = 'INR')
createMoney(amount, currency) ==
    [amount |-> amount,
     currency |-> IF currency = Undefined THEN "INR" ELSE currency]

\* addMoney that takes the currency of its first operand.
addMoney_coercing(a, b) ==
    [amount |-> preciseAdd(a.amount, b.amount), currency |-> a.currency]

addMoney(a, b) ==
    IF a.currency # b.currency
    THEN Threw("Cannot add different currencies")
    ELSE [amount |-> preciseAdd(a.amount, b.amount), currency |-> a.currency]

subtractMoney(a, b) ==
    IF a.currency # b.currency
    THEN Threw("Cannot subtract different currencies")
    ELSE [amount |-> preciseSubtract(a.amount, b.amount), currency |-> a.currency]

\* createCurrencyMoney(amount, currency, autoRound = true)
createCurrencyMoney(amount, currency, autoRound) ==
    LET config == getCurrencyConfig(currency)
        roundedAmount == IF autoRound
                         THEN round(amount, config.decimalPlaces, Undefined)
                         ELSE amount
    IN  [amount |-> roundedAmount,
         currency |-> config.code,
         config |-> config,
         isRounded |-> autoRound]

addCurrencyMoney(a, b) ==
    IF a.currency # b.currency
    THEN Threw("Cannot add different currencies")
    ELSE createCurrencyMoney(preciseAdd(a.amount, b.amount), a.currency,
                             a.isRounded \/ b.isRounded)

\* Amounts: multiples of 0.005 around zero.
MoneyAmounts == {Dec(k, 200) : k \in -MaxMoneyUnits..MaxMoneyUnits}

MoneyCurrencies == {"INR", "USD", "JPY", "KWD", "inr"}

MoneyOperands == [amount : MoneyAmounts, currency : MoneyCurrencies, autoRound : BOOLEAN]

InitMoney ==
    /\ pc = "money"
    /\ arg \in [a : MoneyOperands, b : MoneyOperands]
    /\ out = None
    /\ items = <<>>
    /\ agg = None
    /\ ver = None

\* The Money operands of a call.
MoneyA == createMoney(arg.a.amount, arg.a.currency)

MoneyB == createMoney(arg.b.amount, arg.b.currency)

\* The CurrencyMoney operands of a call.
CurrencyMoneyA == createCurrencyMoney(arg.a.amount, arg.a.currency, arg.a.autoRound)

CurrencyMoneyB == createCurrencyMoney(arg.b.amount, arg.b.currency, arg.b.autoRound)

CallAddMoney ==
    /\ pc = "money"
    /\ out' = addMoney(MoneyA, MoneyB)
    /\ pc' = "added"
    /\ UNCHANGED <<arg, items, agg, ver>>

CallSubtractMoney ==
    /\ pc = "money"
    /\ out' = subtractMoney(MoneyA, MoneyB)
    /\ pc' = "subtracted"
    /\ UNCHANGED <<arg, items, agg, ver>>

CallAddCurrencyMoney ==
    /\ pc = "money"
    /\ out' = addCurrencyMoney(CurrencyMoneyA, CurrencyMoneyB)
    /\ pc' = "currencyAdded"
    /\ UNCHANGED <<arg, items, agg, ver>>

NextMoney == CallAddMoney \/ CallSubtractMoney \/ CallAddCurrencyMoney

SpecMoney == InitMoney /\ [][NextMoney]_vars

\* addMoney and subtractMoney throw on differing codes and otherwise return
\* that currency with the exact sum or difference.
MoneyMismatchRaised ==
    /\ pc \in {"added", "subtracted"} =>
          IF MoneyA.currency # MoneyB.currency
          THEN HasThrown(out)
          ELSE /\ ~HasThrown(out)
               /\ out.currency = MoneyA.currency
    /\ (pc = "added" /\ ~HasThrown(out)) =>
          out.amount = preciseAdd(arg.a.amount, arg.b.amount)
    /\ (pc = "subtracted" /\ ~HasThrown(out)) =>
          out.amount = preciseSubtract(arg.a.amount, arg.b.amount)

\* addCurrencyMoney throws on differing codes and otherwise returns that
\* currency.
CurrencyMoneyMismatchRaised ==
    pc = "currencyAdded" =>
        IF CurrencyMoneyA.currency # CurrencyMoneyB.currency
        THEN HasThrown(out)
        ELSE /\ ~HasThrown(out)
             /\ out.currency = CurrencyMoneyA.currency

\* C12: addMoney, subtractMoney and addCurrencyMoney throw whenever the
\* operands' currency codes differ, and for equal codes return that
\* currency with the exact sum or difference of the amounts.
C12_MismatchRaisedElseExact ==
    /\ MoneyMismatchRaised
    /\ CurrencyMoneyMismatchRaised
    /\ (pc = "currencyAdded" /\ ~HasThrown(out)) =>
          out.amount = preciseAdd(CurrencyMoneyA.amount, CurrencyMoneyB.amount)

\* C12 as the code has it: addCurrencyMoney returns the exact sum when
\* neither operand is marked rounded, and the sum rounded half-even to the
\* currency's scale when either is.
C12_MismatchRaisedElseSum ==
    /\ MoneyMismatchRaised
    /\ CurrencyMoneyMismatchRaised
    /\ (pc = "currencyAdded" /\ ~HasThrown(out)) =>
          /\ out.isRounded = (arg.a.autoRound \/ arg.b.autoRound)
          /\ out.amount =
                IF out.isRounded
                THEN preciseRound(preciseAdd(CurrencyMoneyA.amount,
                                             CurrencyMoneyB.amount),
                                  getCurrencyDecimalPlaces(out.currency), "HALF_EVEN")
                ELSE preciseAdd(CurrencyMoneyA.amount, CurrencyMoneyB.amount)

\* A rupee amount has been added to a dollar amount and the call threw.
C12_Witness ==
    /\ pc = "added"
    /\ arg.a.currency = "INR"
    /\ arg.b.currency = "USD"
    /\ HasThrown(out)

(***************************************************************************)
(* SpecDivide: the operations that divide, each called once on a dividend  *)
(* and a divisor that may be zero.  A quotient is kept exact; the number   *)
(* helpers return a number, held here as the record [value |-> decimal].   *)
(***************************************************************************)
MaxDivisorHalves == 3

DEFAULT_CURRENCY_CODE == "INR"

\* mathIsZero(safeToNumber(value, 0))
mathIsZero(value) == value.n = 0

\* toNumber: the number a short decimal string denotes.
toNumber(value) == [value |-> value]

\* divideMoney that answers a zero divisor with a zero amount.
divideMoney_substituting(money, divisor) ==
    IF preciseIsZero(divisor)
    THEN [amount |-> Zero, currency |-> money.currency]
    ELSE [amount |-> preciseDivide(money.amount, divisor), currency |-> money.currency]

\* preciseDivide throws when the divisor is zero; nothing catches it.
divideMoney(money, divisor) ==
    IF preciseIsZero(divisor)
    THEN Threw("Division by zero")
    ELSE [amount |-> preciseDivide(money.amount, divisor), currency |-> money.currency]

\* roundCurrencyNumber(value, currencyOrDirection = DEFAULT_CURRENCY_CODE, direction)
roundCurrencyNumber(value, currencyOrDirection, direction) ==
    LET given == IF currencyOrDirection = Undefined
                 THEN DEFAULT_CURRENCY_CODE ELSE currencyOrDirection
        roundDir == IF given \in {"UP", "DOWN"} THEN given ELSE direction
        currency == IF given \in {"UP", "DOWN"} THEN DEFAULT_CURRENCY_CODE ELSE given
        decimalPlaces == getCurrencyDecimalPlaces(currency)
        mode == IF roundDir = "UP" THEN "ROUND_CEIL"
                ELSE IF roundDir = "DOWN" THEN "ROUND_FLOOR"
                ELSE DEFAULT_ROUNDING_MODE
    IN  toNumber(round(value, decimalPlaces, mode))

\* divideMoneyNumbers(a, b, currency = DEFAULT_CURRENCY_CODE)
divideMoneyNumbers(a, b, currency) ==
    IF mathIsZero(b)
    THEN toNumber(Zero)
    ELSE roundCurrencyNumber(preciseDivide(a, b), currency, Undefined)

\* percentOfNumber(part, whole, currency = DEFAULT_CURRENCY_CODE)
percentOfNumber(part, whole, currency) ==
    IF mathIsZero(whole)
    THEN toNumber(Zero)
    ELSE roundCurrencyNumber(preciseMultiply(preciseDivide(part, whole), Whole(100)),
                             currency, Undefined)

\* calculatePercentageOfTotal(part, total, currency = DEFAULT_CURRENCY_CODE)
calculatePercentageOfTotal(part, total, currency) ==
    IF mathIsZero(total)
    THEN toNumber(Zero)
    ELSE toNumber(preciseMultiply(preciseDivide(part, total), Whole(100)))

Dividends == MoneyAmounts \cup {Whole(100)}

Divisors == {Dec(k, 2) : k \in -MaxDivisorHalves..MaxDivisorHalves}

DivideCurrencies == {Undefined, "INR", "JPY", "KWD"}

InitDivide ==
    /\ pc = "divide"
    /\ arg \in [dividend : Dividends, divisor : Divisors, currency : DivideCurrencies]
    /\ out = None
    /\ items = <<>>
    /\ agg = None
    /\ ver = None

CallDivideMoney ==
    /\ pc = "divide"
    /\ out' = divideMoney(createMoney(arg.dividend, arg.currency), arg.divisor)
    /\ pc' = "moneyDivided"
    /\ UNCHANGED <<arg, items, agg, ver>>

CallDivideMoneyNumbers ==
    /\ pc = "divide"
    /\ out' = divideMoneyNumbers(arg.dividend, arg.divisor, arg.currency)
    /\ pc' = "numbersDivided"
    /\ UNCHANGED <<arg, items, agg, ver>>

CallPercentOfNumber ==
    /\ pc = "divide"
    /\ out' = percentOfNumber(arg.dividend, arg.divisor, arg.currency)
    /\ pc' = "percentOf"
    /\ UNCHANGED <<arg, items, agg, ver>>

CallCalculatePercentageOfTotal ==
    /\ pc = "divide"
    /\ out' = calculatePercentageOfTotal(arg.dividend, arg.divisor, arg.currency)
    /\ pc' = "percentageOfTotal"
    /\ UNCHANGED <<arg, items, agg, ver>>

\* The tax rate that makes the tax multiplier 1 + taxRate / 100 equal to
\* the divisor.
RateOfMultiplier(multiplier) ==
    preciseMultiply(preciseSubtract(multiplier, Whole(1)), Whole(100))

\* calculateLineItemFromTotal dividing the entered total by the multiplier.
CallFromTotalAtMultiplier ==
    /\ pc = "divide"
    /\ out' = calculateLineItemFromTotal(arg.dividend, Whole(1),
                                         RateOfMultiplier(arg.divisor), Zero,
                                         arg.currency)
    /\ pc' = "fromTotal"
    /\ UNCHANGED <<arg, items, agg, ver>>

NextDivide ==
    \/ CallDivideMoney
    \/ CallDivideMoneyNumbers
    \/ CallPercentOfNumber
    \/ CallCalculatePercentageOfTotal
    \/ CallFromTotalAtMultiplier

SpecDivide == InitDivide /\ [][NextDivide]_vars

Divided ==
    pc \in {"moneyDivided", "numbersDivided", "percentOf", "percentageOfTotal",
            "fromTotal"}

\* C13: every operation that divides raises the engine's division-by-zero
\* error when the divisor is zero, and none returns a substitute value.
C13_DivisionByZeroRaised ==
    (Divided /\ preciseIsZero(arg.divisor)) => HasThrown(out)

\* C13 as the code has it: on a zero divisor divideMoney and the
\* tax-multiplier division of calculateLineItemFromTotal raise the error,
\* while divideMoneyNumbers, percentOfNumber and calculatePercentageOfTotal
\* return the number 0; on a non-zero divisor none of them raises.
C13_DivisionByZeroRaisedOrZero ==
    /\ (pc \in {"moneyDivided", "fromTotal"} /\ preciseIsZero(arg.divisor)) =>
          out = Threw("Division by zero")
    /\ (pc \in {"numbersDivided", "percentOf", "percentageOfTotal"}
           /\ preciseIsZero(arg.divisor)) =>
          out = toNumber(Zero)
    /\ (Divided /\ ~preciseIsZero(arg.divisor)) => ~HasThrown(out)
    /\ (pc = "moneyDivided" /\ ~preciseIsZero(arg.divisor)) =>
          preciseMultiply(out.amount, arg.divisor) = arg.dividend

\* divideMoney has been called with a zero divisor and has thrown.
C13_Witness ==
    /\ pc = "moneyDivided"
    /\ preciseIsZero(arg.divisor)
    /\ ~preciseIsZero(arg.dividend)
    /\ HasThrown(out)

(***************************************************************************)
(* SpecValidate: one call of validateLineItemInput on the arguments of     *)
(* SpecLineItem.                                                           *)
(***************************************************************************)
CallValidateLineItemInput ==
    /\ pc = "lineItem"
    /\ out' = validateLineItemInput([unitPrice |-> arg.amount,
                                     quantity |-> arg.quantity,
                                     discountAmount |-> arg.discountAmount,
                                     taxRate |-> arg.taxRate,
                                     currency |-> arg.currency])
    /\ pc' = "validated"
    /\ UNCHANGED <<arg, items, agg, ver>>

NextValidate == CallValidateLineItemInput

SpecValidate == InitLineItem /\ [][NextValidate]_vars

\* errors.includes(message)
Includes(errors, message) == \E i \in DOMAIN errors : errors[i] = message

\* A violation was recorded: its message is in errors and isValid is false.
Recorded(message) == Includes(out.errors, message) /\ ~out.isValid

\* The discount and the tax rate the caller supplied, '0' when left out.
SuppliedDiscount == safeParsePreciseString(arg.discountAmount)

SuppliedTaxRate == safeParsePreciseString(arg.taxRate)

FieldCorrected ==
    \/ out.unitPrice # arg.amount
    \/ Whole(out.quantity) # arg.quantity
    \/ out.discountAmount # SuppliedDiscount
    \/ out.taxRate # SuppliedTaxRate

\* C15: validateLineItemInput corrects nothing silently: a returned field
\* that differs from the supplied one comes with a non-empty errors and
\* isValid false, and with isValid true every returned field is the
\* supplied one.
C15_NoSilentCorrection ==
    pc = "validated" =>
        /\ FieldCorrected => (out.errors # <<>> /\ ~out.isValid)
        /\ out.isValid => ~FieldCorrected

\* Nothing is corrected silently when the quantity supplied is a whole
\* number.
NoSilentCorrectionOfWholeQuantity ==
    (pc = "validated" /\ arg.quantity.d = 1) =>
        (FieldCorrected => (out.errors # <<>> /\ ~out.isValid))

(***************************************************************************)
(* SpecRegistry: one query of the currency registry.                       *)
(***************************************************************************)
\* getCurrencySymbol(currency = DEFAULT_CURRENCY_CODE)
getCurrencySymbol(currency0) ==
    LET currency == IF currency0 = Undefined THEN DEFAULT_CURRENCY_CODE ELSE currency0
        config == getCurrencyConfig(currency)
    IN  IF config.symbol # "" THEN config.symbol ELSE toUpperCase(currency)

QueryCurrencies == {"", "INR", "inr", "USD", "usd", "JPY", "jpy", "KWD", "kwd", "XYZ"}

InitRegistry ==
    /\ pc = "query"
    /\ arg \in [currency : QueryCurrencies, value : MoneyAmounts]
    /\ out = None
    /\ items = <<>>
    /\ agg = None
    /\ ver = None

CallGetCurrencyConfig ==
    /\ pc = "query"
    /\ out' = getCurrencyConfig(arg.currency)
    /\ pc' = "config"
    /\ UNCHANGED <<arg, items, agg, ver>>

CallGetCurrencyDecimalPlaces ==
    /\ pc = "query"
    /\ out' = [decimalPlaces |-> getCurrencyDecimalPlaces(arg.currency)]
    /\ pc' = "scale"
    /\ UNCHANGED <<arg, items, agg, ver>>

CallGetCurrencySymbol ==
    /\ pc = "query"
    /\ out' = [symbol |-> getCurrencySymbol(arg.currency)]
    /\ pc' = "symbol"
    /\ UNCHANGED <<arg, items, agg, ver>>

\* getCurrencySymbol() with the argument left out.
CallGetDefaultCurrencySymbol ==
    /\ pc = "query"
    /\ out' = [symbol |-> getCurrencySymbol(Undefined)]
    /\ pc' = "defaultSymbol"
    /\ UNCHANGED <<arg, items, agg, ver>>

CallRoundForCurrency ==
    /\ pc = "query"
    /\ out' = [rounded |-> roundForCurrency(arg.value, arg.currency)]
    /\ pc' = "roundedForCurrency"
    /\ UNCHANGED <<arg, items, agg, ver>>

NextRegistry ==
    \/ CallGetCurrencyConfig
    \/ CallGetCurrencyDecimalPlaces
    \/ CallGetCurrencySymbol
    \/ CallGetDefaultCurrencySymbol
    \/ CallRoundForCurrency

SpecRegistry == InitRegistry /\ [][NextRegistry]_vars

\* C16: a scale or symbol query given the empty currency identifier answers
\* for the default currency INR: code INR, scale 2, the symbol of INR.
C16_EmptyCurrencyIsDefault ==
    arg.currency = "" =>
        /\ pc = "config" =>
              /\ out.code = "INR"
              /\ out.decimalPlaces = CURRENCY_DECIMAL_PLACES("INR")
              /\ out.symbol = CURRENCY_SYMBOLS("INR")
        /\ pc = "scale" => out.decimalPlaces = CURRENCY_DECIMAL_PLACES("INR")
        /\ pc = "symbol" => out.symbol = CURRENCY_SYMBOLS("INR")

\* The scale answered for the empty identifier is that of INR, and a symbol
\* query with the argument left out answers the symbol of INR.
EmptyCurrencyScaleIsDefault ==
    /\ (arg.currency = "" /\ pc \in {"config", "scale"}) =>
          out.decimalPlaces = CURRENCY_DECIMAL_PLACES("INR")
    /\ pc = "defaultSymbol" => out.symbol = CURRENCY_SYMBOLS("INR")

\* The lookup is case-insensitive.
LookupIgnoresCase ==
    (pc = "config" /\ toUpperCase(arg.currency) \in CURRENCY_CODES) =>
        out = getCurrencyConfig(toUpperCase(arg.currency))

(***************************************************************************)
(* The input record of a line-item result (SpecLineItem).                  *)
(***************************************************************************)
\* The input record of the result is within the valid ranges.
InputSanitized ==
    /\ ~preciseIsNegative(out.input.unitPrice)
    /\ out.input.quantity \in Nat
    /\ out.input.quantity >= 1
    /\ ~preciseIsNegative(out.input.discountAmount)
    /\ ~preciseIsNegative(out.input.taxRate)
    /\ preciseCompare(out.input.taxRate, Whole(100)) <= 0

\* The calculated amounts are those the input record of the result yields.
ComputedFromInput ==
    LET again == calculateLineItem([unitPrice |-> out.input.unitPrice,
                                    quantity |-> Whole(out.input.quantity),
                                    discountAmount |-> out.input.discountAmount,
                                    taxRate |-> out.input.taxRate,
                                    currency |-> out.currency])
    IN  /\ again.input = out.input
        /\ again.calculated.grossAmount = out.calculated.grossAmount
        /\ again.calculated.taxableAmount = out.calculated.taxableAmount
        /\ again.calculated.taxAmount = out.calculated.taxAmount

\* C17: in both modes the input record of the result is sanitized
\* (unitPrice >= 0, quantity an integer >= 1, discountAmount >= 0, taxRate
\* within [0, 100]) and holds the values the calculated amounts were
\* computed from.
C17_ResultInputSanitized ==
    LineItemReturned => (InputSanitized /\ ComputedFromInput)

\* The same for calculateLineItem alone.
DerivedInputSanitized ==
    pc = "derived" => (InputSanitized /\ ComputedFromInput)

(***************************************************************************)
(* The totals of an aggregation (Spec).                                    *)
(***************************************************************************)
\* C18: for a non-empty item list the aggregation has grandTotal equal to
\* totalBeforeAdjustment + totalAdjustment: what the sum of the line totals
\* differs by from the column totals is part of totalAdjustment.
C18_GrandTotalIsBeforePlusAdjustment ==
    (Aggregated /\ Len(items) > 0) =>
        agg.grandTotal = preciseAdd(agg.totalBeforeAdjustment, agg.totalAdjustment)

\* The same when the aggregation currency keeps the scale of every item.
GrandTotalIsBeforePlusAdjustmentWhenScaleKept ==
    (Aggregated /\ Len(items) > 0 /\ ScaleKept) =>
        agg.grandTotal = preciseAdd(agg.totalBeforeAdjustment, agg.totalAdjustment)

\* Two items with adjustments of their own have been aggregated at their
\* scale.
AdjustmentsAggregated ==
    /\ Aggregated
    /\ Len(items) = 2
    /\ ScaleKept
    /\ ~preciseIsZero(items[1].roundingAdjustment)
    /\ ~preciseIsZero(agg.totalAdjustment)
    /\ agg.grandTotal = preciseAdd(agg.totalBeforeAdjustment, agg.totalAdjustment)

(***************************************************************************)
(* SpecVerify: the invoice of Spec, where the aggregation may be altered   *)
(* before it is handed to verifyInvoiceIntegrity: one line total or the    *)
(* grand total is moved by an offset.                                      *)
(***************************************************************************)
TamperOffsets == {Dec(-1, 100), Dec(5, 1000), Whole(1)}

TamperLineTotal ==
    /\ pc = "aggregated"
    /\ \E i \in 1..Len(agg.items) : \E offset \in TamperOffsets :
          agg' = [agg EXCEPT !.items[i].calculated.total = preciseAdd(@, offset)]
    /\ pc' = "tampered"
    /\ UNCHANGED <<arg, out, items, ver>>

TamperGrandTotal ==
    /\ pc = "aggregated"
    /\ \E offset \in TamperOffsets :
          agg' = [agg EXCEPT !.grandTotal = preciseAdd(@, offset)]
    /\ pc' = "tampered"
    /\ UNCHANGED <<arg, out, items, ver>>

VerifyTampered ==
    /\ pc = "tampered"
    /\ ver' = verifyInvoiceIntegrity(agg)
    /\ pc' = "verified"
    /\ UNCHANGED <<arg, out, items, agg>>

NextVerify ==
    \/ AddDerivedItem
    \/ AddEnteredItem
    \/ Aggregate
    \/ Verify
    \/ TamperLineTotal
    \/ TamperGrandTotal
    \/ VerifyTampered

SpecVerify == Init /\ [][NextVerify]_vars

\* The items whose stored total is not taxableAmount + taxAmount +
\* roundingAdjustment.
InconsistentItems ==
    {i \in 1..Len(agg.items) :
        agg.items[i].calculated.total #
            preciseAdd(preciseAdd(agg.items[i].calculated.taxableAmount,
                                  agg.items[i].calculated.taxAmount),
                       agg.items[i].roundingAdjustment)}

\* What verifyInvoiceIntegrity is to report of the aggregation it was given.
IntegrityReported ==
    /\ ver.lineErrors = InconsistentItems
    /\ ver.grandTotalError <=>
          (agg.grandTotal # preciseSum(MapSeq(TotalOf, agg.items)))
    /\ ver.isValid <=> (ver.errorCount = 0)
    /\ ver.errorCount =
          Cardinality(ver.lineErrors) + (IF ver.grandTotalError THEN 1 ELSE 0)
    /\ ver.details.difference =
          preciseSubtract(agg.grandTotal, preciseSum(MapSeq(TotalOf, agg.items)))

\* C19: verifyInvoiceIntegrity reports a line-item error for exactly the
\* items whose stored total differs from taxableAmount + taxAmount +
\* roundingAdjustment, a grand-total error exactly when grandTotal differs
\* from the sum of the line totals, isValid exactly when there is no error,
\* and details.difference = grandTotal minus the sum of the line totals.
C19_IntegrityReported ==
    pc = "verified" => IntegrityReported

\* Every amount stored in the items of the aggregation is at the scale of
\* the aggregation currency.
StoredAtScale ==
    \A i \in 1..Len(agg.items) :
        LET s == getCurrencyDecimalPlaces(agg.currency)
        IN  /\ AtScale(agg.items[i].calculated.total, s)
            /\ AtScale(agg.items[i].calculated.taxableAmount, s)
            /\ AtScale(agg.items[i].calculated.taxAmount, s)
            /\ AtScale(agg.items[i].roundingAdjustment, s)

\* The same for aggregations whose stored amounts are at the scale of the
\* aggregation currency.
IntegrityReportedAtScale ==
    (pc = "verified" /\ StoredAtScale) => IntegrityReported

\* An altered line total has been reported, and only it.
AlteredLineReported ==
    /\ pc = "verified"
    /\ StoredAtScale
    /\ Len(agg.items) = 2
    /\ ver.lineErrors = {2}
    /\ ver.grandTotalError
    /\ ~ver.isValid

(***************************************************************************)
(* The steps of calculateLineItem (SpecLineItem).                          *)
(***************************************************************************)
\* The sanitized input of the call.
Sanitized ==
    validateLineItemInput([unitPrice |-> arg.amount,
                           quantity |-> arg.quantity,
                           discountAmount |-> arg.discountAmount,
                           taxRate |-> arg.taxRate,
                           currency |-> arg.currency])

\* v rounded half-even to the scale of the result's currency.
AtCurrencyScale(v) == preciseRound(v, out.decimalPlaces, "HALF_EVEN")

\* C20: calculateLineItem computes, on the sanitized input and rounding
\* each step to the currency's scale before the next uses it, grossAmount =
\* round(unitPrice * quantity), effective discount = min(discount,
\* grossAmount), taxableAmount = round(grossAmount - effective discount),
\* taxAmount = round(taxableAmount * taxRate / 100), total =
\* round(taxableAmount + taxAmount), and roundingAdjustment 0.
C20_DerivedSteps ==
    pc = "derived" =>
        LET gross == out.calculated.grossAmount
            taxable == out.calculated.taxableAmount
            tax == out.calculated.taxAmount
            effective == IF preciseCompare(Sanitized.discountAmount, gross) <= 0
                         THEN Sanitized.discountAmount ELSE gross
        IN  /\ out.decimalPlaces = getCurrencyDecimalPlaces(Sanitized.currency)
            /\ gross = AtCurrencyScale(preciseMultiply(Sanitized.unitPrice,
                                                       Whole(Sanitized.quantity)))
            /\ out.input.discountAmount = effective
            /\ taxable = AtCurrencyScale(preciseSubtract(gross, effective))
            /\ tax = AtCurrencyScale(
                         preciseDivide(preciseMultiply(taxable, Sanitized.taxRate),
                                       Whole(100)))
            /\ out.calculated.total = AtCurrencyScale(preciseAdd(taxable, tax))
            /\ out.roundingAdjustment = Zero

\* A line whose gross amount and tax amount both had to be rounded, with a
\* discount below the gross amount.
C20_Witness ==
    /\ pc = "derived"
    /\ arg.amount = Dec(3335, 1000)
    /\ arg.quantity = Whole(3)
    /\ arg.discountAmount = Dec(5, 10)
    /\ arg.taxRate = Dec(125, 10)
    /\ arg.currency = "INR"
    /\ out.calculated.grossAmount = Dec(1000, 100)
    /\ out.calculated.taxableAmount = Dec(950, 100)
    /\ out.calculated.taxAmount = Dec(119, 100)
    /\ out.calculated.total = Dec(1069, 100)

(***************************************************************************)
(* The back-solving pass of calculateLineItemFromTotal (SpecLineItem).     *)
(***************************************************************************)
\* The remainder left after the integer part and the first k fractional
\* digits of x have been taken out of num / den, times den * 10^k.
RECURSIVE RemainderAfter(_, _, _, _)
RemainderAfter(x, num, den, k) ==
    IF k = 0 THEN num - x.whole * den
    ELSE RemainderAfter(x, num, den, k - 1) * 10 - x.fraction[k] * den

\* x is |a / b| written with precision fractional digits and the digits
\* beyond them dropped, under the sign of a / b.
IsQuotientTo(x, a, b, precision) ==
    LET num == Abs(a.n * b.d)
        den == Abs(a.d * b.n)
    IN  /\ Len(x.fraction) = precision
        /\ \A k \in 1..precision : x.fraction[k] \in 0..9
        /\ \A k \in 0..precision :
               /\ RemainderAfter(x, num, den, k) >= 0
               /\ RemainderAfter(x, num, den, k) < den
        /\ x.negative <=> (a.n * b.n < 0)

\* The quantity the pass divides by: mathMax(1, mathFloor(quantity)).
BackSolveQuantity == IF mathFloor(arg.quantity) >= 1 THEN mathFloor(arg.quantity) ELSE 1

\* C21: calculateLineItemFromTotal back-solves in one pass: taxable0 =
\* round(round(enteredTotal) / (1 + taxRate/100)), gross0 = round(taxable0 +
\* discount), exactUnitPrice = gross0 / quantity kept at 10 decimal places,
\* displayedUnitPrice = round(exactUnitPrice) at the currency's scale; the
\* returned grossAmount, taxableAmount and taxAmount are those of
\* calculateLineItem applied to displayedUnitPrice with the same quantity,
\* discount and tax rate, and recomputedTotal is that call's total.
C21_BackSolvedInOnePass ==
    (pc = "entered" /\ ~HasThrown(out)) =>
        LET scale == out.decimalPlaces
            total0 == preciseRound(arg.amount, scale, "HALF_EVEN")
            tax == IF arg.taxRate = Absent THEN Zero ELSE arg.taxRate
            discount == IF arg.discountAmount = Absent THEN Zero
                        ELSE arg.discountAmount
            taxable0 ==
                preciseRound(
                    preciseDivide(total0,
                                  preciseAdd(Whole(1), preciseDivide(tax, Whole(100)))),
                    scale, "HALF_EVEN")
            gross0 == preciseRound(preciseAdd(taxable0, discount), scale, "HALF_EVEN")
            forward ==
                calculateLineItem([unitPrice |-> out.displayedUnitPrice,
                                   quantity |-> Whole(BackSolveQuantity),
                                   discountAmount |-> discount,
                                   taxRate |-> tax,
                                   currency |-> out.currency])
        IN  /\ IsQuotientTo(out.exactUnitPrice, gross0, Whole(BackSolveQuantity), 10)
            /\ out.displayedUnitPrice =
                   preciseRound(RoundingOperand(out.exactUnitPrice, scale),
                                scale, "HALF_EVEN")
            /\ preciseCompare(
                   preciseAbs(preciseSubtract(
                       preciseMultiply(out.displayedUnitPrice,
                                       Whole(BackSolveQuantity)),
                       gross0)),
                   preciseMultiply(MinorUnit(scale), Dec(BackSolveQuantity, 2))) <= 0
            /\ out.calculated.grossAmount = forward.calculated.grossAmount
            /\ out.calculated.taxableAmount = forward.calculated.taxableAmount
            /\ out.calculated.taxAmount = forward.calculated.taxAmount
            /\ out.recomputedTotal = forward.calculated.total

\* A pass with a discount and a tax whose unit price does not end within 10
\* decimal places and is rounded away from the exact one.
C21_Witness ==
    /\ pc = "entered"
    /\ ~HasThrown(out)
    /\ out.input.quantity > 1
    /\ out.exactUnitPrice.fraction[10] # 0
    /\ ~preciseIsZero(out.input.discountAmount)
    /\ ~preciseIsZero(out.calculated.taxAmount)
    /\ out.recomputedTotal # out.calculated.total

(***************************************************************************)
(* SpecAdjustRun: SpecAdjust with the call running on.  A call of          *)
(* distributeRoundingAdjustment is synchronous code on one thread: once    *)
(* entered, each of its steps is taken.                                    *)
(***************************************************************************)
SpecAdjustRun == InitAdjust /\ [][NextAdjust]_vars /\ WF_vars(NextAdjust)

\* The call has ended: it returned or it threw.
AdjustEnded == pc \in {"adjustReturned", "adjustThrew"}

\* The loop has made at most 10 * n increments.
AdjustIncrementsBounded ==
    (pc = "adjustLoop" \/ (pc = "adjustReturned" /\ "index" \in DOMAIN out)) =>
        /\ out.index >= 0
        /\ out.index <= 10 * Len(arg.values)

\* C22: the residual-redistribution loop of distributeRoundingAdjustment
\* terminates for every input after at most 10 * n increments, n the number
\* of values, also when the residual can never reach zero because the
\* target is not a multiple of the minor unit and when the residual is
\* larger than 10 * n minor units.
C22_LoopTerminates == []AdjustIncrementsBounded /\ <>AdjustEnded

\* The residual at the entry of the loop, in minor units.
AdjustResidualUnits ==
    preciseDivide(preciseSubtract(arg.targetTotal,
                                  preciseSum(MapSeq(RoundDefault, arg.values))),
                  MinorUnit(arg.decimalPlaces))

\* The loop was stopped by its limit on a residual that is not a whole
\* number of minor units.
C22_Witness ==
    /\ pc = "adjustReturned"
    /\ "index" \in DOMAIN out
    /\ out.index = 10 * Len(arg.values)
    /\ ~preciseIsZero(out.difference)
    /\ AdjustResidualUnits.d # 1

\* The loop was stopped by its limit on a residual of more than 10 * n
\* minor units.
StoppedOnFarTarget ==
    /\ pc = "adjustReturned"
    /\ "index" \in DOMAIN out
    /\ out.index = 10 * Len(arg.values)
    /\ ~preciseIsZero(out.difference)
    /\ AdjustResidualUnits.d = 1
    /\ Abs(AdjustResidualUnits.n) > 10 * Len(arg.values)

(***************************************************************************)
(* The safety limit of distributeRoundingAdjustment (SpecAdjust).          *)
(***************************************************************************)
\* The loop has used up its 10 * n increments and the residual is not zero.
AdjustLimitReached ==
    /\ "index" \in DOMAIN out
    /\ out.index = SafetyFactor * Len(out.result)
    /\ ~preciseIsZero(out.difference)

\* C23: when distributeRoundingAdjustment reaches its safety limit of 10 * n
\* increments with the residual still not zero, the call does not return a
\* result list: the condition reaches the caller as an error.
C23_LimitSurfaced == AdjustLimitReached => pc # "adjustReturned"

\* A call that returns short of the limit returns a list that sums to the
\* target.
ReturnedShortOfLimitSumsToTarget ==
    (pc = "adjustReturned" /\ Len(arg.values) > 0 /\ ~AdjustLimitReached) =>
        preciseSum(out.result) = arg.targetTotal

(***************************************************************************)
(* The order and the size of the increments (SpecAdjust).                  *)
(***************************************************************************)
\* The least integer that is at least a / n, for n > 0.
CeilDiv(a, n) == -((-a) \div n)

\* The value of item i (counted from 0) after the loop has made steps
\* increments in the order 0, 1, ..., n-1, 0, ..., each of one minor unit
\* under the sign of the residual at the entry of the loop.
ServedInTurn(i, steps) ==
    LET n == Len(arg.values)
        turns == CeilDiv(steps - i, n)
        signed == IF AdjustResidualUnits.n > 0 THEN turns ELSE -turns
    IN  preciseAdd(RoundDefault(arg.values[i + 1]),
                   preciseMultiply(Whole(signed), MinorUnit(arg.decimalPlaces)))

\* While the loop runs and after it, every item holds what it is served in
\* turn by the increments made so far.
AdjustInTurn ==
    (pc \in {"adjustLoop", "adjustReturned"} /\ "index" \in DOMAIN out) =>
        \A i \in 0..(Len(arg.values) - 1) :
            out.result[i + 1] = ServedInTurn(i, out.index)

\* The residual is k minor units, k a whole number with |k| <= 10 * n.
AdjustResidualWithinLimit ==
    /\ Len(arg.values) > 0
    /\ AdjustResidualUnits.d = 1
    /\ Abs(AdjustResidualUnits.n) <= 10 * Len(arg.values)

\* The call has returned the list in which item i has been served
\* ceil((|k| - i) / n) increments.
AdjustReturnedInTurn ==
    /\ pc = "adjustReturned"
    /\ Len(out.result) = Len(arg.values)
    /\ \A i \in 0..(Len(arg.values) - 1) :
           out.result[i + 1] = ServedInTurn(i, Abs(AdjustResidualUnits.n))

\* C24: while the residual is not zero the increments go to the indices 0,
\* 1, ..., n-1, 0, ... in that order, each with the sign of the initial
\* residual; for a residual of k minor units with |k| <= 10n item i ends at
\* round(values[i]) plus ceil((|k| - i)/n) increments, so no item receives
\* more than one increment more than another and earlier indices are served
\* first; the result is a function of the input.
C24_IncrementsInTurn ==
    /\ AdjustInTurn
    /\ (AdjustEnded /\ AdjustResidualWithinLimit) => AdjustReturnedInTurn

\* The same where the increment can be built, decimalPlaces >= 1.
IncrementsInTurnAtScale ==
    /\ AdjustInTurn
    /\ (AdjustEnded /\ AdjustResidualWithinLimit /\ arg.decimalPlaces >= 1) =>
           AdjustReturnedInTurn

\* A returned list in which the first item was served twice and the last
\* item once.
ServedUnevenly ==
    /\ pc = "adjustReturned"
    /\ AdjustResidualWithinLimit
    /\ Len(arg.values) > 1
    /\ Abs(AdjustResidualUnits.n) > Len(arg.values)
    /\ Abs(AdjustResidualUnits.n) % Len(arg.values) # 0
    /\ AdjustReturnedInTurn

\* C25: for every decimalPlaces >= 0, 0 included, each redistribution step
\* adds an increment of magnitude exactly one minor unit, 10^-decimalPlaces,
\* and the call returns a result list.
C25_StepIsOneMinorUnit ==
    /\ (pc = "adjustLoop" =>
            preciseAbs(out.increment) = Dec(1, Pow10(arg.decimalPlaces)))
    /\ (AdjustEnded => pc = "adjustReturned")

\* The same for decimalPlaces >= 1.
StepIsOneMinorUnitAtScale ==
    arg.decimalPlaces >= 1 =>
        /\ (pc = "adjustLoop" =>
                preciseAbs(out.increment) = Dec(1, Pow10(arg.decimalPlaces)))
        /\ (AdjustEnded => pc = "adjustReturned")

(***************************************************************************)
(* SpecGST: calculateGST and calculateTax called on the same base amount,  *)
(* rate and currency, in either order.  out holds the result of            *)
(* calculateGST and agg the result of calculateTax.                        *)
(***************************************************************************)
MaxBaseEighths == 40

\* calculateTax(baseAmount, taxRate, currency = 'INR')
calculateTax(baseAmount, taxRate, currency0) ==
    LET currency == IF currency0 = Undefined THEN "INR" ELSE currency0
        taxAmount ==
            roundForCurrency(precisePercentage(baseAmount, taxRate), currency)
        totalWithTax == preciseAdd(baseAmount, taxAmount)
    IN  [taxAmount |-> taxAmount,
         totalWithTax |-> roundForCurrency(totalWithTax, currency)]

\* halfRate that keeps the whole rate.
halfRate_whole(gstRate) == gstRate

\* const halfRate = preciseDivide(parseToString(gstRate), '2')
halfRate(gstRate) == preciseDivide(gstRate, Whole(2))

\* calculateGST(baseAmount, gstRate, currency = 'INR')
calculateGST(baseAmount, gstRate, currency0) ==
    LET currency == IF currency0 = Undefined THEN "INR" ELSE currency0
        cgst ==
            roundForCurrency(precisePercentage(baseAmount, halfRate(gstRate)),
                             currency)
        sgst ==
            roundForCurrency(precisePercentage(baseAmount, halfRate(gstRate)),
                             currency)
        gstAmount == preciseAdd(cgst, sgst)
        totalWithGST == preciseAdd(baseAmount, gstAmount)
    IN  [gstAmount |-> gstAmount,
         cgst |-> cgst,
         sgst |-> sgst,
         totalWithGST |-> roundForCurrency(totalWithGST, currency)]

GstBases == {Dec(k, 8) : k \in -4..MaxBaseEighths}

GstRates ==
    {Whole(-5), Zero, Dec(1, 4), Whole(5), Whole(12), Dec(25, 2), Whole(18),
     Whole(28), Whole(100), Whole(150)}

GstCurrencies == {Undefined, "INR", "JPY", "KWD"}

InitGST ==
    /\ pc = "gst"
    /\ arg \in [baseAmount : GstBases, rate : GstRates, currency : GstCurrencies]
    /\ out = None
    /\ items = <<>>
    /\ agg = None
    /\ ver = None

CallCalculateGST ==
    /\ pc \in {"gst", "taxDone"}
    /\ out' = calculateGST(arg.baseAmount, arg.rate, arg.currency)
    /\ pc' = IF pc = "gst" THEN "gstDone" ELSE "gstAndTax"
    /\ UNCHANGED <<arg, items, agg, ver>>

CallCalculateTax ==
    /\ pc \in {"gst", "gstDone"}
    /\ agg' = calculateTax(arg.baseAmount, arg.rate, arg.currency)
    /\ pc' = IF pc = "gst" THEN "taxDone" ELSE "gstAndTax"
    /\ UNCHANGED <<arg, out, items, ver>>

NextGST == CallCalculateGST \/ CallCalculateTax

SpecGST == InitGST /\ [][NextGST]_vars

\* The scale of the currency the two calls were given.
GstScale ==
    IF arg.currency = Undefined THEN 2 ELSE CURRENCY_DECIMAL_PLACES(arg.currency)

\* C26: for every base amount, GST rate and currency calculateGST returns
\* cgst = sgst = round(base * (rate/2) / 100) and gstAmount = cgst + sgst,
\* and gstAmount differs from the combined tax round(base * rate / 100) that
\* calculateTax returns by at most one minor unit of the currency.
C26_GstHalvesWithinOneUnit ==
    (pc = "gstAndTax") =>
        LET half ==
                preciseRound(
                    preciseDivide(
                        preciseMultiply(arg.baseAmount,
                                        preciseDivide(arg.rate, Whole(2))),
                        Whole(100)),
                    GstScale, "HALF_EVEN")
            combined ==
                preciseRound(
                    preciseDivide(preciseMultiply(arg.baseAmount, arg.rate),
                                  Whole(100)),
                    GstScale, "HALF_EVEN")
        IN  /\ out.cgst = half
            /\ out.sgst = half
            /\ out.gstAmount = preciseAdd(half, half)
            /\ agg.taxAmount = combined
            /\ preciseCompare(
                   preciseAbs(preciseSubtract(out.gstAmount, agg.taxAmount)),
                   MinorUnit(GstScale)) <= 0

\* The two halves add up to one minor unit more or less than the combined tax.
C26_Witness ==
    /\ pc = "gstAndTax"
    /\ ~preciseIsZero(out.cgst)
    /\ preciseAbs(preciseSubtract(out.gstAmount, agg.taxAmount)) = MinorUnit(GstScale)

(***************************************************************************)
(* hasAdjustments of an aggregation (Spec).                                *)
(***************************************************************************)
\* Some aggregated item carries a rounding adjustment that is not zero.
SomeItemAdjusted ==
    \E i \in 1..Len(items) : ~preciseIsZero(items[i].roundingAdjustment)

\* C27: for items produced by calculateLineItem or
\* calculateLineItemFromTotal, aggregateLineItems returns hasAdjustments
\* true exactly when at least one aggregated item carries a rounding
\* adjustment that is not zero; it is false for a list of derived-mode items.
C27_HasAdjustmentsIffItemAdjusted ==
    Aggregated => (agg.hasAdjustments <=> SomeItemAdjusted)

\* When the aggregation currency keeps the scale of every item,
\* hasAdjustments tells whether the items' adjustments add up to something
\* other than zero, and it is false when no item carries an adjustment.
HasAdjustmentsIsNetAdjustment ==
    (Aggregated /\ ScaleKept) =>
        /\ agg.hasAdjustments <=>
               ~preciseIsZero(preciseSum(MapSeq(AdjustmentOf, items)))
        /\ ~SomeItemAdjusted => ~agg.hasAdjustments

\* Two adjusted items whose adjustments cancel have been aggregated at
\* their own scale, and hasAdjustments is false.
AdjustmentsCancel ==
    /\ Aggregated
    /\ ScaleKept
    /\ Len(items) = 2
    /\ ~preciseIsZero(items[1].roundingAdjustment)
    /\ ~preciseIsZero(items[2].roundingAdjustment)
    /\ ~agg.hasAdjustments

(***************************************************************************)
(* Entered-total mode on one unit without discount (SpecLineItem).         *)
(***************************************************************************)
\* Quantity 1, no discount, a non-negative entered total at the currency's
\* scale and a tax rate in [0, 100].
SingleUnitEntered ==
    /\ pc = "entered"
    /\ arg.quantity = Whole(1)
    /\ arg.discountAmount \in {Absent, Zero}
    /\ ~preciseIsNegative(arg.amount)
    /\ AtScale(arg.amount, getCurrencyDecimalPlaces(
                               IF arg.currency = Undefined THEN "INR"
                               ELSE arg.currency))
    /\ preciseCompare(arg.taxRate, Zero) >= 0
    /\ preciseCompare(arg.taxRate, Whole(100)) <= 0

\* C28: in entered-total mode with quantity 1, no discount, a non-negative
\* entered total at the currency's scale and a tax rate in [0, 100],
\* displayedUnitPrice equals the back-solved taxable amount and the absolute
\* value of roundingAdjustment is at most one minor unit of the currency.
C28_SingleUnitWithinOneUnit ==
    SingleUnitEntered =>
        /\ ~HasThrown(out)
        /\ out.displayedUnitPrice =
               preciseRound(
                   preciseDivide(arg.amount,
                                 preciseAdd(Whole(1),
                                            preciseDivide(arg.taxRate, Whole(100)))),
                   out.decimalPlaces, "HALF_EVEN")
        /\ preciseCompare(preciseAbs(out.roundingAdjustment),
                          MinorUnit(out.decimalPlaces)) <= 0

\* Such a call whose adjustment is one minor unit.
C28_Witness ==
    /\ SingleUnitEntered
    /\ ~HasThrown(out)
    /\ ~preciseIsZero(arg.taxRate)
    /\ preciseAbs(out.roundingAdjustment) = MinorUnit(out.decimalPlaces)

(***************************************************************************)
(* SpecCommission: one call of calculateCommission(grossAmount,            *)
(* commissionRate, tdsRate, gstOnCommissionRate, currency).                *)
(***************************************************************************)
MaxGrossUnits == 40

\* netToProperty with the TDS taken off instead of given back.
netToProperty_lessTds(grossAmount, commission, gstOnCommission, tds, currency) ==
    roundForCurrency(
        preciseSubtract(
            preciseSubtract(grossAmount, preciseAdd(commission, gstOnCommission)),
            tds),
        currency)

\* Net to property = Gross - Commission - GST on Commission + TDS
netToProperty(grossAmount, commission, gstOnCommission, tds, currency) ==
    roundForCurrency(
        preciseAdd(
            preciseSubtract(grossAmount, preciseAdd(commission, gstOnCommission)),
            tds),
        currency)

\* calculateCommission(grossAmount, commissionRate, tdsRate = '10',
\*                     gstOnCommissionRate = '18', currency = 'INR')
calculateCommission(grossAmount, commissionRate, tdsRate0, gstOnCommissionRate0, currency0) ==
    LET tdsRate == IF tdsRate0 = Absent THEN Whole(10) ELSE tdsRate0
        gstOnCommissionRate ==
            IF gstOnCommissionRate0 = Absent THEN Whole(18)
            ELSE gstOnCommissionRate0
        currency == IF currency0 = Undefined THEN "INR" ELSE currency0
        commission ==
            roundForCurrency(precisePercentage(grossAmount, commissionRate),
                             currency)
        gstOnCommission ==
            roundForCurrency(precisePercentage(commission, gstOnCommissionRate),
                             currency)
        tds == roundForCurrency(precisePercentage(commission, tdsRate), currency)
        netCommission ==
            roundForCurrency(
                preciseSubtract(preciseAdd(commission, gstOnCommission), tds),
                currency)
    IN  [commission |-> commission,
         gstOnCommission |-> gstOnCommission,
         tds |-> tds,
         netCommission |-> netCommission,
         netToProperty |->
             netToProperty(grossAmount, commission, gstOnCommission, tds, currency)]

\* Gross amounts in steps of 0.005, and two larger ones.
GrossAmounts ==
    {Dec(k, 200) : k \in -2..MaxGrossUnits} \cup {Whole(100), Dec(99999, 1000)}

CommissionRates == {Whole(-5), Zero, Whole(10), Dec(125, 10), Whole(15), Whole(150)}

TdsRates == {Absent, Zero, Whole(1), Whole(10)}

GstOnCommissionRates == {Absent, Zero, Whole(18)}

CommissionCurrencies == {Undefined, "INR", "JPY", "KWD"}

InitCommission ==
    /\ pc = "commission"
    /\ arg \in [grossAmount : GrossAmounts, commissionRate : CommissionRates,
                tdsRate : TdsRates, gstOnCommissionRate : GstOnCommissionRates,
                currency : CommissionCurrencies]
    /\ out = None
    /\ items = <<>>
    /\ agg = None
    /\ ver = None

CallCalculateCommission ==
    /\ pc = "commission"
    /\ out' = calculateCommission(arg.grossAmount, arg.commissionRate, arg.tdsRate,
                                  arg.gstOnCommissionRate, arg.currency)
    /\ pc' = "commissioned"
    /\ UNCHANGED <<arg, items, agg, ver>>

NextCommission == CallCalculateCommission

SpecCommission == InitCommission /\ [][NextCommission]_vars

\* The scale of the currency the call was given.
CommissionScale ==
    IF arg.currency = Undefined THEN 2 ELSE CURRENCY_DECIMAL_PLACES(arg.currency)

\* C29: for every grossAmount at the currency's scale and all commission,
\* TDS and GST-on-commission rates, netCommission + netToProperty equals
\* grossAmount exactly, and netCommission = commission + gstOnCommission -
\* tds.
C29_CommissionConservesGross ==
    (pc = "commissioned" /\ AtScale(arg.grossAmount, CommissionScale)) =>
        /\ preciseAdd(out.netCommission, out.netToProperty) = arg.grossAmount
        /\ out.netCommission =
               preciseSubtract(preciseAdd(out.commission, out.gstOnCommission),
                               out.tds)

\* A call on a gross amount at scale in which the commission, its GST and
\* its TDS were each rounded to something other than zero.
C29_Witness ==
    /\ pc = "commissioned"
    /\ AtScale(arg.grossAmount, CommissionScale)
    /\ ~preciseIsZero(out.gstOnCommission)
    /\ ~preciseIsZero(out.tds)
    /\ out.commission # precisePercentage(arg.grossAmount, arg.commissionRate)
    /\ out.tds # out.gstOnCommission

\* A gross amount finer than the currency's scale is not conserved.
OffScaleGrossNotConserved ==
    /\ pc = "commissioned"
    /\ ~AtScale(arg.grossAmount, CommissionScale)
    /\ preciseAdd(out.netCommission, out.netToProperty) # arg.grossAmount

(***************************************************************************)
(* Order and scale of the amounts of calculateLineItem (SpecLineItem).     *)
(***************************************************************************)
\* a <= b
AtMost(a, b) == preciseCompare(a, b) <= 0

\* The amounts are not negative, ordered, and at the currency's scale.
AmountsOrderedAtScale ==
    LET gross == out.calculated.grossAmount
        taxable == out.calculated.taxableAmount
        tax == out.calculated.taxAmount
        total == out.calculated.total
        effective == out.input.discountAmount
    IN  /\ AtMost(effective, gross)
        /\ AtMost(Zero, taxable)
        /\ AtMost(Zero, tax)
        /\ AtMost(tax, taxable)
        /\ AtMost(taxable, total)
        /\ AtMost(total, preciseMultiply(Whole(2), taxable))
        /\ AtScale(gross, out.decimalPlaces)
        /\ AtScale(taxable, out.decimalPlaces)
        /\ AtScale(tax, out.decimalPlaces)
        /\ AtScale(total, out.decimalPlaces)

\* C30: for every input to calculateLineItem the calculated amounts are
\* not negative, ordered and at scale: effective discount <= grossAmount,
\* taxableAmount = grossAmount - effective discount >= 0, 0 <= taxAmount <=
\* taxableAmount, taxableAmount <= total <= 2 * taxableAmount, and each of
\* grossAmount, taxableAmount, taxAmount and total has no more fractional
\* digits than the currency's decimal places.
C30_AmountsOrderedAtScale ==
    pc = "derived" =>
        /\ AmountsOrderedAtScale
        /\ out.calculated.taxableAmount =
               preciseSubtract(out.calculated.grossAmount, out.input.discountAmount)

\* The same with taxableAmount = round(grossAmount - effective discount),
\* which is grossAmount - effective discount when the discount has no more
\* fractional digits than the currency's decimal places and is within half
\* a minor unit of it otherwise.
C30_AmountsOrderedTaxableRounded ==
    pc = "derived" =>
        LET difference ==
                preciseSubtract(out.calculated.grossAmount, out.input.discountAmount)
        IN  /\ AmountsOrderedAtScale
            /\ AtMost(Zero, out.input.discountAmount)
            /\ out.calculated.taxableAmount =
                   preciseRound(difference, out.decimalPlaces, "HALF_EVEN")
            /\ AtScale(out.input.discountAmount, out.decimalPlaces) =>
                   out.calculated.taxableAmount = difference
            /\ AtMost(preciseAbs(preciseSubtract(out.calculated.taxableAmount,
                                                 difference)),
                      preciseDivide(MinorUnit(out.decimalPlaces), Whole(2)))

\* A taxed line whose discount is finer than the currency's scale and below
\* the gross amount, so that the taxable amount had to be rounded.
C30_Witness ==
    /\ pc = "derived"
    /\ ~AtScale(out.input.discountAmount, out.decimalPlaces)
    /\ preciseCompare(out.input.discountAmount, out.calculated.grossAmount) < 0
    /\ out.calculated.taxableAmount #
           preciseSubtract(out.calculated.grossAmount, out.input.discountAmount)
    /\ ~preciseIsZero(out.calculated.taxAmount)
    /\ out.calculated.taxAmount # out.calculated.taxableAmount

====
